---- MODULE Spec2Model ----
(***************************************************************************)
(* A model of src/src/cuda_control.c of PG-Strom: the GpuContext registry  *)
(* (gcontext_hash, gcontext_last, gcontext_lock), the reference counted    *)
(* acquire / release of a GpuContext, its teardown and the resource-owner  *)
(* cleanup callback.                                                       *)
(***************************************************************************)
EXTENDS Integers, Sequences, FiniteSets, TLC

(***************************************************************************)
(* Bounds of the model.                                                    *)
(***************************************************************************)
\* resource owners (scopes) that GpuContexts are acquired for
NumScopes == 2
\* GpuContext records ever allocated in one run
MaxContexts == 2
\* acquisitions of one GpuContext in one run (the N of "N acquire calls")
MaxAcquire == 2

\* the two concurrent callers of the registry
Threads == {1, 2}
Scopes == 1..NumScopes
CtxIds == 1..MaxContexts

\* the NULL pointer, for GpuContext pointers and ResourceOwner pointers
NULL == 0

(***************************************************************************)
(* 32-bit words for the CRC of gpucontext_hash_index.  A word is a pair    *)
(* <<hi, lo>> of 16-bit halves, which keeps every intermediate number      *)
(* inside the range of TLC's integers.                                     *)
(***************************************************************************)
RECURSIVE Xor16(_, _, _)
Xor16(a, b, n) ==
    IF n = 0 THEN 0
    ELSE (((a % 2) + (b % 2)) % 2) + 2 * Xor16(a \div 2, b \div 2, n - 1)

XorWord(a, b) == <<Xor16(a[1], b[1], 16), Xor16(a[2], b[2], 16)>>

ShiftRight1(w) == <<w[1] \div 2, (w[2] \div 2) + 32768 * (w[1] % 2)>>

AllOnes == <<65535, 65535>>

\* the reflected CRC-32C (Castagnoli) polynomial 0x82F63B78
Crc32cPoly == <<33526, 15224>>

RECURSIVE Crc32cBits(_, _)
Crc32cBits(crc, n) ==
    IF n = 0 THEN crc
    ELSE Crc32cBits(IF crc[2] % 2 = 1 THEN XorWord(ShiftRight1(crc), Crc32cPoly)
                                      ELSE ShiftRight1(crc), n - 1)

\* the table of the byte-wise algorithm: the crc register after one byte x
Crc32cTable == [x \in 0..255 |-> Crc32cBits(<<0, x>>, 8)]

ShiftRight8(w) == <<w[1] \div 256, (w[2] \div 256) + (256 * (w[1] % 256))>>

\* COMP_CRC32C over a sequence of bytes
RECURSIVE COMP_CRC32C(_, _)
COMP_CRC32C(crc, data) ==
    IF data = <<>> THEN crc
    ELSE COMP_CRC32C(XorWord(Crc32cTable[Xor16(crc[2] % 256, Head(data), 8)],
                             ShiftRight8(crc)),
                     Tail(data))

\* lengthof(gcontext_hash)
HashSize == 100

\* INIT_CRC32C, COMP_CRC32C, FIN_CRC32C, then "crc % lengthof(gcontext_hash)"
Crc32cModHashSize(data) ==
    LET crc == XorWord(COMP_CRC32C(AllOnes, data), AllOnes)
    IN  ((crc[1] % HashSize) * (65536 % HashSize) + crc[2]) % HashSize

(***************************************************************************)
(* The host's resource owners.  A ResourceOwner is a pointer to a          *)
(* ResourceOwnerData whose first member is the pointer to its parent       *)
(* owner; OwnerAddress gives the bytes (little endian, 8 bytes) of the     *)
(* address of an owner, NULL being all zero.                               *)
(***************************************************************************)
OwnerAddress(p) ==
    IF p = NULL THEN <<0, 0, 0, 0, 0, 0, 0, 0>>
    ELSE LET lo16 == 45808 + (72 * p)
         IN  <<lo16 % 256, lo16 \div 256, 161, 195, 213, 85, 0, 0>>

\* the owners that exist in the host: owner 3 is the top-level owner of the
\* transaction, owner 1 the owner of a subtransaction, owner 2 the owner of a
\* portal created in that subtransaction
Owners == 1..(IF NumScopes < 3 THEN 3 ELSE NumScopes)

InitialParent(s) == IF s = 3 THEN NULL ELSE IF s = 2 THEN 1 ELSE 3

\* the crc of the first sizeof(ResourceOwner) bytes of a ResourceOwnerData,
\* by the parent pointer stored there
HashOfParent ==
    [p \in {NULL} \cup Owners |-> Crc32cModHashSize(OwnerAddress(p))]

VARIABLES
    gcontext_lock,        \* slock_t gcontext_lock: TRUE while taken
    gcontext_hash,        \* dlist_head gcontext_hash[100]: the chain of each bucket
    gcontext_last,        \* GpuContext *gcontext_last
    cuda_num_devices,     \* int cuda_num_devices, -1 before pgstrom_init_cuda
    cuda_device_ordinals, \* List *cuda_device_ordinals
    gcontext,             \* the GpuContext records ever allocated, by address
    memcxt_deleted,       \* the GpuContexts whose memory context was deleted
    resowner_parent,      \* ResourceOwnerData.parent of every owner
    pc,                   \* position of every thread
    frame,                \* arguments and locals of the call a thread is in
    held,                 \* per GpuContext: references got and not put yet
    trace,                \* what the call a thread is in has logged and called
                          \* so far (after a call that raised: that error)
    hist,                 \* per GpuContext: calls made on it so far
    gts,                  \* the GpuTaskState records, by address
    task,                 \* the GpuTask records, by address
    pds,                  \* the pgstrom_data_store records, by address
    cuda_context,         \* the CUcontext objects of the driver
    cuda_current,         \* the CUcontext current to every thread
    device_work,          \* the GpuTasks whose work a device is executing
    machine,              \* the devices the driver reports, by ordinal + 1
    cuda_max_malloc_size, \* size_t cuda_max_malloc_size
    cuda_max_threads_per_block, \* size_t cuda_max_threads_per_block
    cuda_compute_capability,    \* int cuda_compute_capability
    startup,              \* pgstrom_init_cuda_control: position, log, the
                          \* callbacks registered for resource release
    workgroup,            \* the call of pgstrom_compute_workgroup_size in
                          \* progress: arguments, locals, results, log
    device_info,          \* the set-returning call of pgstrom_device_info:
                          \* call_cntr, the rows returned so far, position
    wait_child,           \* the call of plcuda_wait_child_program in progress,
                          \* the child, the SIGCHLD handler, the latch
    expand_source         \* the call of plcuda_expand_source: the text, the
                          \* code context, the strtok_r position

vars == <<gcontext_lock, gcontext_hash, gcontext_last, cuda_num_devices,
          cuda_device_ordinals, gcontext, memcxt_deleted, resowner_parent,
          pc, frame, held, trace, hist,
          gts, task, pds, cuda_context, cuda_current, device_work,
          machine, cuda_max_malloc_size, cuda_max_threads_per_block,
          cuda_compute_capability, startup, workgroup, device_info,
          wait_child, expand_source>>

\* the task level and the driver's objects
taskVars == <<gts, task, pds>>
cudaVars == <<cuda_context, cuda_current, device_work>>
\* what postmaster startup sets, and the calls that only read it
deviceVars == <<cuda_device_ordinals, machine, cuda_max_malloc_size,
                cuda_max_threads_per_block, cuda_compute_capability, startup,
                workgroup, device_info>>
\* the PL/CUDA handler (src/unnamed/part_000)
plcudaVars == <<wait_child, expand_source>>

\* the variables of the registry and of its callers
registryVars == <<gcontext_lock, gcontext_hash, gcontext_last, cuda_num_devices,
                  gcontext, memcxt_deleted, resowner_parent, pc, frame, held,
                  trace, hist>>

(***************************************************************************)
(* Helpers: the dlist operations of lib/ilist.h on a chain kept as the     *)
(* sequence of its nodes from head to tail, and the entries of a trace:    *)
(* <<"elog", level, message>> and <<driver call or callback, ...>>.        *)
(***************************************************************************)
\* a push that links the node twice
dlist_push_twice(chain, node) == chain \o <<node, node>>

dlist_push_tail(chain, node) == Append(chain, node)

dlist_delete(chain, node) == SelectSeq(chain, LAMBDA n : n # node)

InSeq(x, seq) == \E i \in 1..Len(seq) : seq[i] = x

Warning(msg) == <<"elog", "WARNING", msg>>

Error(msg) == <<"elog", "ERROR", msg>>

Raised(log) == \E i \in 1..Len(log) : log[i][1] = "elog" /\ log[i][2] = "ERROR"

Warned(log) == \E i \in 1..Len(log) : log[i][1] = "elog" /\ log[i][2] = "WARNING"

Phases == {"RESOURCE_RELEASE_BEFORE_LOCKS", "RESOURCE_RELEASE_LOCKS",
           "RESOURCE_RELEASE_AFTER_LOCKS"}

NoFrame == [resowner |-> NULL, hindex |-> 0, gcontext |-> NULL, is_commit |-> FALSE]

Allocated == DOMAIN gcontext

\* the GpuContexts chained in some bucket of gcontext_hash
Registered ==
    UNION {{gcontext_hash[h][i] : i \in 1..Len(gcontext_hash[h])} :
              h \in DOMAIN gcontext_hash}

RegisteredFor(s) == {c \in Registered : gcontext[c].resowner = s}

Crashed == \E t \in Threads : pc[t] = "crashed"

(***************************************************************************)
(* gpucontext_hash_index: the crc of the sizeof(ResourceOwner) bytes that  *)
(* resowner points to, modulo the number of buckets.  Those bytes are the  *)
(* first member of ResourceOwnerData, the parent pointer.                  *)
(***************************************************************************)
gpucontext_hash_index(resowner) == HashOfParent[resowner_parent[resowner]]

(***************************************************************************)
(* pgstrom_create_gpucontext: the record MemoryContextAllocZero returns,   *)
(* with the members the function sets.  num_context, cur_context and       *)
(* dev_context are left zero.                                              *)
(***************************************************************************)
pgstrom_create_gpucontext(resowner) ==
    [refcnt      |-> 1,
     resowner    |-> resowner,
     num_context |-> 0,
     cur_context |-> 0,
     dev_context |-> <<>>,
     state_list  |-> <<>>,
     pds_list    |-> <<>>]

\* the failures pgstrom_create_gpucontext can raise: cuInit or cuDeviceGet in
\* pgstrom_init_cuda (first call only), or the allocation of the memory context
CreateFailures == {"none", "cuInit", "cuDeviceGet", "HostPinMemContextCreate"}

\* refcnt++ of a hit (lines 130 and 142)
get_refcnt_incr(refcnt) == refcnt + 1

\* the dlist_foreach of lines 136-146: the first GpuContext of the chain bound
\* to the owner, or NULL
get_scan_chain(chain, owner) ==
    LET hits == {i \in 1..Len(chain) : gcontext[chain[i]].resowner = owner}
    IN  IF hits = {} THEN NULL
        ELSE chain[CHOOSE i \in hits : \A j \in hits : i <= j]

\* a new GpuContext pushed to the neighbour of its bucket
get_insert_next(hindex) == (hindex + 1) % HashSize

\* the bucket a new GpuContext is pushed to (line 152)
get_insert_index(hindex) == hindex

\* the value of gcontext_last when pgstrom_get_gpucontext returns a context it
\* has created (lines 151-154 leave gcontext_last as it is)
get_last_after_create(last, created) == last

(***************************************************************************)
(* Postmaster startup.  The machine is the sequence of the devices the     *)
(* driver reports, the device of ordinal i at position i + 1, each with    *)
(* what pgstrom_check_device_capability reads of it.  Sizes are in bytes.  *)
(***************************************************************************)
\* devices of a machine
MaxDevices == 3
\* the memory of the largest device, in megabytes
MaxDeviceMB == 9

\* 1UL << 20
MB == 2^20

\* the initial value of the three limits (lines 30-32)
INT_MAX == 2147483647

\* the oldest supported major compute capability (line 527)
KeplerMajor == 3

\* a device whose third is not on a megabyte boundary, and the largest
DeviceMemSizes == {3 * MB + 1, MaxDeviceMB * MB}

Devices ==
    [dev_mem_sz                : DeviceMemSizes,
     dev_max_threads_per_block : {512, 1024},
     dev_cap_major             : {KeplerMajor - 1, KeplerMajor},
     dev_cap_minor             : {0, 5}]

Machines == UNION {[1..n -> Devices] : n \in 0..MaxDevices}

Min(a, b) == IF a < b THEN a ELSE b

\* a capability test that accepts every device
device_supported_any(dev_cap_major) == TRUE

\* lines 527-528: result stays true unless the device is older than Kepler
device_supported(dev_cap_major) == ~(dev_cap_major < KeplerMajor)

\* (dev_mem_sz / 3) & ~((1UL << 20) - 1) of line 534: the low 20 bits cleared
malloc_limit(dev_mem_sz) == ((dev_mem_sz \div 3) \div MB) * MB

\* the limits and the list before pgstrom_init_cuda_control (lines 29-32)
BeforeStartup ==
    [cuda_device_ordinals       |-> <<>>,
     cuda_max_malloc_size       |-> INT_MAX,
     cuda_max_threads_per_block |-> INT_MAX,
     cuda_compute_capability    |-> INT_MAX,
     result                     |-> TRUE,
     log                        |-> <<>>]

\* pgstrom_check_device_capability (lines 459-555), its driver queries
\* succeeding: the limits are tracked for the device whatever the result
pgstrom_check_device_capability(ordinal, device, st) ==
    [st EXCEPT
        !.result = device_supported(device.dev_cap_major),
        !.cuda_max_malloc_size = Min(@, malloc_limit(device.dev_mem_sz)),
        !.cuda_max_threads_per_block = Min(@, device.dev_max_threads_per_block),
        !.cuda_compute_capability =
            Min(@, (100 * device.dev_cap_major) + device.dev_cap_minor),
        !.log = Append(@, <<"elog", "LOG", ordinal,
                            IF device_supported(device.dev_cap_major)
                            THEN "" ELSE ", NOT SUPPORTED">>)]

\* lines 583-584: lappend_int when the device passed
lappend_checked(list, ordinal, result) ==
    IF result THEN Append(list, ordinal) ELSE list

\* the loop of lines 578-585 from ordinal i on
RECURSIVE enumerate_devices(_, _, _)
enumerate_devices(devices, i, st) ==
    IF ~(i < Len(devices)) THEN st
    ELSE \* the binding keeps the checked state from being computed twice
         LET checked == pgstrom_check_device_capability(i, devices[i + 1], st)
         IN  enumerate_devices(devices, i + 1,
                 [checked EXCEPT !.cuda_device_ordinals =
                     lappend_checked(@, i, checked.result)])

\* the hook of line 595
CleanupCallback == "gpucontext_cleanup_callback"

\* startup that finds no device although one was listed
startup_fails_always(ordinals) == TRUE

\* line 586
startup_fails(ordinals) == ordinals = <<>>

\* two devices of the newest kind
DefaultMachine ==
    [i \in 1..2 |-> [dev_mem_sz                |-> MaxDeviceMB * MB,
                     dev_max_threads_per_block |-> 1024,
                     dev_cap_major             |-> KeplerMajor,
                     dev_cap_minor             |-> 5]]

\* no call of pgstrom_compute_workgroup_size in progress
NoWorkgroup ==
    [pc |-> "none",
     \* what the driver reports of the function and of the device
     function |-> [shared_size_bytes |-> 0, max_threads_per_block |-> 0],
     device |-> [max_shared_memory_per_block |-> 0, warp_size |-> 0],
     \* arguments
     maximum_blocksize |-> FALSE, nitems |-> 0, dynamic_shmem_per_thread |-> 0,
     \* locals
     dynamic_shmem_per_block |-> 0, maximum_shmem_per_block |-> 0,
     warp_size |-> 0, grid_size |-> 0, block_size |-> 0,
     \* results
     p_grid_size |-> 0, p_block_size |-> 0, log |-> <<>>]

\* no call of pgstrom_device_info yet
NoDeviceInfo == [pc |-> "none", call_cntr |-> 0, rows |-> <<>>, log |-> <<>>]

\* what has happened to a GpuContext: the calls of pgstrom_get_gpucontext that
\* returned it, the calls of pgstrom_put_gpucontext on it, whether one of these
\* set do_release, whether the cleanup callback unlinked it, and the calls of
\* pgstrom_release_gpucontext on it
NewHist == [acquired |-> 1, released |-> 0, put_released |-> FALSE,
            forced |-> FALSE, teardowns |-> 0]

\* the handler of SIGCHLD a backend has before plcuda_wait_child_program
PreviousHandler == "previous handler"

\* no call of plcuda_wait_child_program yet: the child runs
NoWait ==
    [pc |-> "none",
     child |-> "running", reaped |-> FALSE, killed |-> FALSE,
     \* signal(SIGCHLD), the process latch, InterruptPending
     sigchld |-> PreviousHandler, latch |-> FALSE, interrupt |-> FALSE,
     \* locals
     sigchld_saved |-> NULL, status |-> "none",
     \* seconds waited in WaitLatch: in this call of it, and since the last
     \* CHECK_FOR_INTERRUPTS
     waited |-> 0, unchecked |-> 0,
     \* whether this iteration has been through CHECK_FOR_INTERRUPTS
     checked |-> FALSE,
     isnull |-> FALSE, log |-> <<>>]

\* no call of plcuda_expand_source
NoExpand == [pc |-> "none"]

\* a backend that has made no call yet
InitBackend ==
    /\ wait_child = NoWait
    /\ gcontext_last = NULL
    /\ cuda_num_devices = -1
    /\ gcontext = <<>>
    /\ memcxt_deleted = {}
    /\ resowner_parent = [s \in Owners |-> InitialParent(s)]
    /\ pc = [t \in Threads |-> "idle"]
    /\ frame = [t \in Threads |-> NoFrame]
    /\ held = [c \in CtxIds |-> 0]
    /\ trace = [t \in Threads |-> <<>>]
    /\ hist = <<>>
    /\ gts = <<>>
    /\ task = <<>>
    /\ pds = <<>>
    /\ cuda_context = <<>>
    /\ cuda_current = [t \in Threads |-> NULL]
    /\ device_work = {}

\* the state pgstrom_init_cuda_control leaves on a machine
Started(devices) ==
    LET st == enumerate_devices(devices, 0, BeforeStartup)
    IN  /\ machine = devices
        /\ gcontext_lock = FALSE
        /\ gcontext_hash = [h \in 0..(HashSize - 1) |-> <<>>]
        /\ cuda_device_ordinals = st.cuda_device_ordinals
        /\ cuda_max_malloc_size = st.cuda_max_malloc_size
        /\ cuda_max_threads_per_block = st.cuda_max_threads_per_block
        /\ cuda_compute_capability = st.cuda_compute_capability
        /\ startup = [pc |-> "done", log |-> st.log,
                      callbacks |-> <<CleanupCallback>>]

Init ==
    /\ InitBackend
    /\ Started(DefaultMachine)
    /\ workgroup = NoWorkgroup
    /\ device_info = NoDeviceInfo
    /\ expand_source = NoExpand

(***************************************************************************)
(* pgstrom_get_gpucontext, in two steps: SpinLockAcquire (line 125), then  *)
(* the critical section up to the return (lines 126-154).                  *)
(***************************************************************************)
pgstrom_get_gpucontext_enter(t, CurrentResourceOwner) ==
    /\ ~Crashed
    /\ pc[t] = "idle"
    /\ gcontext_lock = FALSE
    \* bounds of the model: records allocated, acquisitions of one record
    /\ LET found == get_scan_chain(
                        gcontext_hash[gpucontext_hash_index(CurrentResourceOwner)],
                        CurrentResourceOwner)
       IN  IF found = NULL
           THEN Len(gcontext) < MaxContexts
           ELSE hist[found].acquired < MaxAcquire
    /\ gcontext_lock' = TRUE
    /\ pc' = [pc EXCEPT ![t] = "get"]
    /\ frame' = [frame EXCEPT ![t] = [NoFrame EXCEPT !.resowner = CurrentResourceOwner]]
    /\ trace' = [trace EXCEPT ![t] = <<>>]
    /\ UNCHANGED <<gcontext_hash, gcontext_last, cuda_num_devices,
                   deviceVars, plcudaVars, gcontext, memcxt_deleted,
                   resowner_parent, held, hist, taskVars, cudaVars>>

\* a hit: refcnt++, SpinLockRelease, return gcontext
get_hit(t, c) ==
    /\ gcontext' = [gcontext EXCEPT ![c].refcnt = get_refcnt_incr(@)]
    /\ hist' = [hist EXCEPT ![c].acquired = @ + 1]
    /\ gcontext_lock' = FALSE
    /\ pc' = [pc EXCEPT ![t] = "idle"]
    /\ frame' = [frame EXCEPT ![t] = NoFrame]
    /\ held' = [held EXCEPT ![c] = @ + 1]
    /\ UNCHANGED <<gcontext_hash, gcontext_last, cuda_num_devices,
                   deviceVars, plcudaVars, memcxt_deleted, resowner_parent, trace,
                   taskVars, cudaVars>>

\* a miss: pgstrom_create_gpucontext, dlist_push_tail, SpinLockRelease, return
get_miss(t, owner, hindex, failure) ==
    LET init_cuda == cuda_num_devices < 0
        c == Len(gcontext) + 1
    IN
    /\ cuda_num_devices' =
           IF init_cuda /\ failure # "cuInit"
           THEN Len(cuda_device_ordinals) ELSE cuda_num_devices
    /\ pc' = [pc EXCEPT ![t] = "idle"]
    /\ frame' = [frame EXCEPT ![t] = NoFrame]
    /\ IF (init_cuda /\ failure \in {"cuInit", "cuDeviceGet"})
          \/ failure = "HostPinMemContextCreate"
       THEN \* elog(ERROR) leaves the function at once
            /\ trace' = [trace EXCEPT ![t] = <<Error(failure)>>]
            /\ UNCHANGED <<gcontext_lock, gcontext_hash, gcontext_last, gcontext,
                           held, hist>>
       ELSE /\ gcontext' = Append(gcontext, pgstrom_create_gpucontext(owner))
            /\ hist' = Append(hist, NewHist)
            /\ gcontext_hash' =
                   [gcontext_hash EXCEPT
                       ![get_insert_index(hindex)] = dlist_push_tail(@, c)]
            /\ gcontext_last' = get_last_after_create(gcontext_last, c)
            /\ gcontext_lock' = FALSE
            /\ held' = [held EXCEPT ![c] = @ + 1]
            /\ UNCHANGED trace
    /\ UNCHANGED <<deviceVars, plcudaVars, memcxt_deleted, resowner_parent,
                   taskVars, cudaVars>>

pgstrom_get_gpucontext(t, failure) ==
    /\ pc[t] = "get"
    /\ LET owner  == frame[t].resowner
           hindex == gpucontext_hash_index(owner)
           found  == get_scan_chain(gcontext_hash[hindex], owner)
       IN  IF gcontext_last # NULL /\ gcontext[gcontext_last].resowner = owner
           THEN get_hit(t, gcontext_last)
           ELSE IF found # NULL
           THEN get_hit(t, found)
           ELSE get_miss(t, owner, hindex, failure)

(***************************************************************************)
(* pgstrom_release_gpucontext works on st, the part of the state it        *)
(* changes: the CUcontext current to the thread, the work the devices      *)
(* execute, the driver's contexts, the task states, tasks and data stores, *)
(* the trace.                                                              *)
(*                                                                         *)
(* pgstrom_sync_gpucontext (lines 157-174): for every device context of    *)
(* the GpuContext, cuCtxSetCurrent and cuCtxSynchronize; a failure of      *)
(* either is a warning and the loop goes on.  The driver fails a call when *)
(* told to (fail_set, fail_sync), cuCtxSetCurrent on a destroyed context,  *)
(* cuCtxSynchronize without a usable current context.  A successful        *)
(* cuCtxSynchronize returns when the work of the current context is done.  *)
(***************************************************************************)
SubIndexes(c) == 0..(gcontext[c].num_context - 1)

RECURSIVE sync_loop(_, _, _, _, _)
sync_loop(c, i, st, fail_set, fail_sync) ==
    IF i >= gcontext[c].num_context THEN st
    ELSE LET ctx     == gcontext[c].dev_context[i + 1]
             set_ok  == ~st.cuda_context[ctx].destroyed /\ i \notin fail_set
             cur     == IF set_ok THEN ctx ELSE st.current
             sync_ok == /\ cur # NULL
                        /\ ~st.cuda_context[cur].destroyed
                        /\ i \notin fail_sync
             done    == IF sync_ok
                        THEN {k \in st.work : task[k].cuda_context = cur}
                        ELSE {}
         IN  sync_loop(c, i + 1,
                 [st EXCEPT
                     !.current = cur,
                     !.work = st.work \ done,
                     !.trace = st.trace
                         \o <<<<"cuCtxSetCurrent", ctx, set_ok>>>>
                         \o (IF set_ok THEN <<>>
                             ELSE <<Warning("failed on cuCtxSetCurrent")>>)
                         \o <<<<"cuCtxSynchronize", cur, sync_ok, done>>>>
                         \o (IF sync_ok THEN <<>>
                             ELSE <<Warning("failed on cuCtxSynchronize")>>)],
                 fail_set, fail_sync)

\* a teardown that does not wait for the devices
sync_skipped(c, st, fail_set, fail_sync) == st

pgstrom_sync_gpucontext(c, st, fail_set, fail_sync) ==
    sync_loop(c, 0, st, fail_set, fail_sync)

(***************************************************************************)
(* Lines 188-224: every GpuTaskState of state_list is unlinked, its module *)
(* unloaded (a failure is a warning), its tracked tasks unlinked and       *)
(* released by cb_release, then cb_cleanup is called.  With is_commit the  *)
(* tasks and the task state are logged as leaks.                           *)
(***************************************************************************)
\* Lines 204-213.  task->cb_release is NULL unless the caller has stored a
\* callback in the GpuTask, and the call through NULL at line 212 ends the
\* process.
RECURSIVE release_tasks(_, _, _)
release_tasks(tracked, st, is_commit) ==
    IF tracked = <<>> \/ st.crashed THEN st
    ELSE LET k    == Head(tracked)
             g    == st.task[k].gts
             leak == IF is_commit
                     THEN <<Warning("Unreferenced GpuTask leak")>> ELSE <<>>
         IN  release_tasks(Tail(tracked),
                 IF st.task[k].cb_release
                 THEN [st EXCEPT
                          !.gts[g].tracked_tasks = dlist_delete(@, k),
                          !.task[k].released = @ + 1,
                          !.trace = st.trace \o leak \o <<<<"cb_release", k>>>>]
                 ELSE [st EXCEPT
                          !.gts[g].tracked_tasks = dlist_delete(@, k),
                          !.crashed = TRUE,
                          !.trace = st.trace \o leak \o <<<<"call", NULL, k>>>>],
                 is_commit)

\* lines 193-202
release_module(g, st, failed) ==
    LET unload == st.gts[g].cuda_module
    IN  [st EXCEPT
            !.state_list = dlist_delete(@, g),
            !.gts[g].cuda_module = FALSE,
            !.trace = st.trace
                \o (IF unload THEN <<<<"cuModuleUnload", g, ~failed>>>> ELSE <<>>)
                \o (IF unload /\ failed
                    THEN <<Warning("failed on cuModuleUnload")>> ELSE <<>>)]

\* lines 204-213
release_tracked_tasks(g, st, is_commit) ==
    release_tasks(st.gts[g].tracked_tasks, st, is_commit)

\* lines 215-218, after the unlinking of every tracked task
release_cleanup(g, st, is_commit) ==
    IF st.crashed THEN st
    ELSE [st EXCEPT
             !.gts[g].cleaned = IF st.gts[g].cb_cleanup THEN @ + 1 ELSE @,
             !.trace = st.trace
                 \o (IF is_commit
                     THEN <<Warning("Unreferenced GpuTaskState leak")>> ELSE <<>>)
                 \o (IF st.gts[g].cb_cleanup THEN <<<<"cb_cleanup", g>>>> ELSE <<>>)]

release_state(g, st, is_commit, fail_unload) ==
    release_cleanup(g,
        release_tracked_tasks(g,
            release_module(g, st, g \in fail_unload), is_commit),
        is_commit)

RECURSIVE release_states(_, _, _, _)
release_states(list, st, is_commit, fail_unload) ==
    IF list = <<>> \/ st.crashed THEN st
    ELSE release_states(Tail(list),
                        release_state(Head(list), st, is_commit, fail_unload),
                        is_commit, fail_unload)

(***************************************************************************)
(* Lines 231-238: every pgstrom_data_store of pds_list is unlinked and,    *)
(* when it is mapped from a file (kds_fname), unmapped.                    *)
(***************************************************************************)
RECURSIVE release_data_stores(_, _)
release_data_stores(list, st) ==
    IF list = <<>> \/ st.crashed THEN st
    ELSE LET p == Head(list)
         IN  release_data_stores(Tail(list),
                 [st EXCEPT
                     !.pds_list = dlist_delete(@, p),
                     !.pds[p].chained = FALSE,
                     !.pds[p].mapped = IF st.pds[p].kds_fname THEN FALSE ELSE @,
                     !.trace = st.trace
                         \o <<<<"dlist_delete", "pds", p>>>>
                         \o (IF st.pds[p].kds_fname
                             THEN <<<<"pgstrom_file_unmap_data_store", p>>>>
                             ELSE <<>>)])

(***************************************************************************)
(* Lines 241-248: cuCtxDestroy of every device context, a failure being a  *)
(* warning, then cuCtxSetCurrent(NULL).  cuCtxDestroy fails when told to   *)
(* (fail_destroy) and on a destroyed context; the work a destroyed context *)
(* was executing is gone with it.                                          *)
(***************************************************************************)
RECURSIVE destroy_loop(_, _, _, _)
destroy_loop(c, i, st, fail_destroy) ==
    IF st.crashed THEN st
    ELSE IF i >= gcontext[c].num_context
    THEN [st EXCEPT !.current = NULL,
                    !.trace = st.trace \o <<<<"cuCtxSetCurrent", NULL, TRUE>>>>]
    ELSE LET ctx  == gcontext[c].dev_context[i + 1]
             ok   == ~st.cuda_context[ctx].destroyed /\ i \notin fail_destroy
             lost == IF ok THEN {k \in st.work : task[k].cuda_context = ctx}
                     ELSE {}
         IN  destroy_loop(c, i + 1,
                 [st EXCEPT
                     !.cuda_context[ctx].destroyed = @ \/ ok,
                     !.work = st.work \ lost,
                     !.trace = st.trace
                         \o <<<<"cuCtxDestroy", ctx, ok, lost>>>>
                         \o (IF ok THEN <<>>
                             ELSE <<Warning("failed on cuCtxDestroy")>>)],
                 fail_destroy)

(***************************************************************************)
(* pgstrom_release_gpucontext (lines 176-252): the sync, the task states,  *)
(* the data stores, the device contexts, and at last MemoryContextDelete   *)
(* of the memory context that holds the GpuContext itself.                 *)
(***************************************************************************)
\* a teardown that leaves the memory context
release_memcxt_kept(c, st) == st

release_memcxt(c, st) ==
    IF st.crashed THEN st
    ELSE [st EXCEPT !.trace = st.trace \o <<<<"MemoryContextDelete", c>>>>,
                    !.deleted = TRUE]

\* a teardown that deletes the memory context before the device contexts
\* are destroyed
release_memcxt_first(c, st, is_commit, fail) ==
    destroy_loop(c, 0,
        release_memcxt(c,
            release_data_stores(gcontext[c].pds_list,
                release_states(gcontext[c].state_list,
                    pgstrom_sync_gpucontext(c, st, fail.set, fail.sync),
                    is_commit, fail.unload))),
        fail.destroy)

release_driver_calls(c, st, is_commit, fail) ==
    release_memcxt(c,
        destroy_loop(c, 0,
            release_data_stores(gcontext[c].pds_list,
                release_states(gcontext[c].state_list,
                    pgstrom_sync_gpucontext(c, st, fail.set, fail.sync),
                    is_commit, fail.unload)),
            fail.destroy))

\* Deleting a memory context twice is undefined: the process ends there
\* (fault) or goes on.
pgstrom_release_gpucontext(t, fail, fault) ==
    /\ pc[t] = "release"
    /\ \E c \in {frame[t].gcontext} :
       \E st \in {release_driver_calls(c,
                     [current |-> cuda_current[t], work |-> device_work,
                      cuda_context |-> cuda_context, gts |-> gts, task |-> task,
                      pds |-> pds, trace |-> trace[t],
                      state_list |-> gcontext[c].state_list,
                      pds_list |-> gcontext[c].pds_list,
                      crashed |-> FALSE, deleted |-> FALSE],
                     frame[t].is_commit, fail)} :
           /\ cuda_current' = [cuda_current EXCEPT ![t] = st.current]
           /\ device_work' = st.work
           /\ cuda_context' = st.cuda_context
           /\ gts' = st.gts
           /\ task' = st.task
           /\ pds' = st.pds
           /\ trace' = [trace EXCEPT ![t] = st.trace]
           /\ gcontext' = [gcontext EXCEPT ![c].state_list = st.state_list,
                                           ![c].pds_list = st.pds_list]
           /\ hist' = [hist EXCEPT ![c].teardowns = @ + 1]
           /\ memcxt_deleted' = IF st.deleted THEN memcxt_deleted \cup {c}
                                ELSE memcxt_deleted
           /\ pc' = [pc EXCEPT ![t] =
                         IF st.crashed \/ (c \in memcxt_deleted /\ fault)
                         THEN "crashed" ELSE "released"]
    /\ UNCHANGED <<gcontext_lock, gcontext_hash, gcontext_last, cuda_num_devices,
                   deviceVars, plcudaVars, resowner_parent, frame, held>>

\* the return of pgstrom_put_gpucontext or gpucontext_cleanup_callback after
\* pgstrom_release_gpucontext
release_return(t) ==
    /\ pc[t] = "released"
    /\ pc' = [pc EXCEPT ![t] = "idle"]
    /\ frame' = [frame EXCEPT ![t] = NoFrame]
    /\ trace' = [trace EXCEPT ![t] = <<>>]
    /\ UNCHANGED <<gcontext_lock, gcontext_hash, gcontext_last, cuda_num_devices,
                   deviceVars, plcudaVars, gcontext, memcxt_deleted, resowner_parent,
                   held, hist, taskVars, cudaVars>>

(***************************************************************************)
(* pgstrom_put_gpucontext, in two steps and the release: SpinLockAcquire   *)
(* (line 259), then the critical section (lines 260-268); with do_release  *)
(* the thread goes on to pgstrom_release_gpucontext(gcontext, true).       *)
(* A put of a GpuContext whose memory context was deleted reads and writes *)
(* freed memory, which is undefined: the process ends there (fault) or the *)
(* record is still as it was left.                                         *)
(***************************************************************************)
pgstrom_put_gpucontext_enter(t, c) ==
    /\ ~Crashed
    /\ pc[t] = "idle"
    /\ held[c] > 0
    /\ gcontext_lock = FALSE
    /\ gcontext_lock' = TRUE
    /\ pc' = [pc EXCEPT ![t] = "put"]
    /\ frame' = [frame EXCEPT ![t] = [NoFrame EXCEPT !.gcontext = c]]
    /\ held' = [held EXCEPT ![c] = @ - 1]
    /\ trace' = [trace EXCEPT ![t] = <<>>]
    /\ UNCHANGED <<gcontext_hash, gcontext_last, cuda_num_devices,
                   deviceVars, plcudaVars, gcontext, memcxt_deleted,
                   resowner_parent, hist, taskVars, cudaVars>>

\* a put that takes two references off
put_refcnt_decr_twice(refcnt) == refcnt - 2

\* --gcontext->refcnt (line 261)
put_refcnt_decr(refcnt) == refcnt - 1

\* a release decided while one reference is still out
put_do_release_early(refcnt) == refcnt <= 1

\* the test of line 261 on the decremented count
put_do_release(refcnt) == refcnt = 0

\* a release that leaves the context chained in its bucket
unlink_nothing(hash, c) == hash

\* the buckets after dlist_delete(&gcontext->chain)
unlink_gpucontext(hash, c) == [h \in DOMAIN hash |-> dlist_delete(hash[h], c)]

\* gcontext_last after "if (gcontext_last == gcontext) gcontext_last = NULL"
clear_gcontext_last(last, c) == IF last = c THEN NULL ELSE last

pgstrom_put_gpucontext(t, fault) ==
    /\ pc[t] = "put"
    /\ LET c          == frame[t].gcontext
           freed      == c \in memcxt_deleted
           refcnt     == put_refcnt_decr(gcontext[c].refcnt)
           do_release == put_do_release(refcnt)
       IN  IF freed /\ fault
           THEN /\ pc' = [pc EXCEPT ![t] = "crashed"]
                /\ UNCHANGED <<gcontext_lock, gcontext_hash, gcontext_last,
                               gcontext, frame, hist>>
           ELSE /\ gcontext' = [gcontext EXCEPT ![c].refcnt = refcnt]
                /\ gcontext_last' = IF do_release
                                    THEN clear_gcontext_last(gcontext_last, c)
                                    ELSE gcontext_last
                /\ gcontext_hash' = IF do_release
                                    THEN unlink_gpucontext(gcontext_hash, c)
                                    ELSE gcontext_hash
                /\ gcontext_lock' = FALSE
                /\ hist' = [hist EXCEPT ![c].released = @ + 1,
                                        ![c].put_released = @ \/ do_release]
                /\ frame' = [frame EXCEPT ![t] =
                                IF do_release
                                THEN [frame[t] EXCEPT !.is_commit = TRUE]
                                ELSE NoFrame]
                /\ pc' = [pc EXCEPT ![t] = IF do_release THEN "release" ELSE "idle"]
    /\ UNCHANGED <<cuda_num_devices, deviceVars, plcudaVars, memcxt_deleted,
                   resowner_parent, held, trace, taskVars, cudaVars>>

(***************************************************************************)
(* gpucontext_cleanup_callback: the hash index (line 342) and the test of  *)
(* the phase (line 344), SpinLockAcquire (line 347); then the scan of the  *)
(* bucket (lines 348-367); a GpuContext found is unlinked and released by  *)
(* pgstrom_release_gpucontext(gcontext, is_commit).                        *)
(***************************************************************************)
\* the phase the callback acts on (line 344)
cleanup_phase == "RESOURCE_RELEASE_AFTER_LOCKS"

\* a callback that acts at every phase
cleanup_phase_any(phase) == TRUE

\* line 344
cleanup_phase_matches(phase) == phase = cleanup_phase

\* The trace of the call begins with the call itself and its arguments.
gpucontext_cleanup_callback_enter(t, phase, is_commit, CurrentResourceOwner) ==
    /\ ~Crashed
    /\ pc[t] = "idle"
    /\ trace' = [trace EXCEPT ![t] =
                    <<<<"gpucontext_cleanup_callback", phase, is_commit,
                        CurrentResourceOwner>>>>]
    /\ IF ~cleanup_phase_matches(phase)
       THEN UNCHANGED <<gcontext_lock, pc, frame>>
       ELSE /\ gcontext_lock = FALSE
            /\ gcontext_lock' = TRUE
            /\ pc' = [pc EXCEPT ![t] = "cleanup"]
            /\ frame' = [frame EXCEPT ![t] =
                            [resowner  |-> CurrentResourceOwner,
                             hindex    |-> gpucontext_hash_index(CurrentResourceOwner),
                             gcontext  |-> NULL,
                             is_commit |-> is_commit]]
    /\ UNCHANGED <<gcontext_hash, gcontext_last, cuda_num_devices,
                   deviceVars, plcudaVars, gcontext, memcxt_deleted,
                   resowner_parent, held, hist, taskVars, cudaVars>>

\* a scan that takes the head of the chain whatever its owner
cleanup_scan_head(chain, owner) == IF chain = <<>> THEN NULL ELSE Head(chain)

\* the dlist_foreach_modify of lines 348-366: the first GpuContext of the
\* chain bound to the owner, or NULL
cleanup_scan_chain(chain, owner) ==
    LET hits == {i \in 1..Len(chain) : gcontext[chain[i]].resowner = owner}
    IN  IF hits = {} THEN NULL
        ELSE chain[CHOOSE i \in hits : \A j \in hits : i <= j]

\* what lines 360-361 log
cleanup_log(is_commit) ==
    IF is_commit THEN <<Warning("Probably, someone forgot to put GpuContext")>>
    ELSE <<>>

gpucontext_cleanup_callback(t) ==
    /\ pc[t] = "cleanup"
    /\ LET c == cleanup_scan_chain(gcontext_hash[frame[t].hindex], frame[t].resowner)
       IN  IF c = NULL
           THEN /\ pc' = [pc EXCEPT ![t] = "idle"]
                /\ frame' = [frame EXCEPT ![t] = NoFrame]
                /\ trace' = [trace EXCEPT ![t] = <<>>]
                /\ UNCHANGED <<gcontext_hash, gcontext_last, hist>>
           ELSE /\ gcontext_last' = clear_gcontext_last(gcontext_last, c)
                /\ gcontext_hash' = unlink_gpucontext(gcontext_hash, c)
                /\ trace' = [trace EXCEPT ![t] = cleanup_log(frame[t].is_commit)]
                /\ frame' = [frame EXCEPT ![t].gcontext = c]
                /\ hist' = [hist EXCEPT ![c].forced = TRUE]
                /\ pc' = [pc EXCEPT ![t] = "release"]
    /\ gcontext_lock' = FALSE
    /\ UNCHANGED <<cuda_num_devices, deviceVars, plcudaVars, gcontext, memcxt_deleted,
                   resowner_parent, held, taskVars, cudaVars>>

(***************************************************************************)
(* The host moves a resource owner under the parent of its parent           *)
(* (ResourceOwnerNewParent at the commit of a subtransaction, for the      *)
(* portals created in it).  This rewrites the parent member of the owner,  *)
(* the bytes gpucontext_hash_index reads at line 80.                       *)
(***************************************************************************)
ResourceOwnerNewParent(owner, newparent) ==
    /\ ~Crashed
    /\ gcontext_lock = FALSE
    /\ resowner_parent[owner] # NULL
    /\ newparent = resowner_parent[resowner_parent[owner]]
    /\ resowner_parent' = [resowner_parent EXCEPT ![owner] = newparent]
    /\ UNCHANGED <<gcontext_lock, gcontext_hash, gcontext_last, cuda_num_devices,
                   deviceVars, plcudaVars, gcontext, memcxt_deleted, pc, frame,
                   held, trace, hist, taskVars, cudaVars>>

(***************************************************************************)
(* The registry under concurrent callers: every thread may acquire for any *)
(* owner, put a reference that is held, and run the cleanup callback for   *)
(* any owner, phase and commit flag.  The driver may fail any call of a    *)
(* teardown.                                                               *)
(***************************************************************************)
ReleaseFailures(t) ==
    IF pc[t] # "release" THEN {}
    ELSE LET c == frame[t].gcontext
         IN  [set     : SUBSET SubIndexes(c),
              sync    : SUBSET SubIndexes(c),
              unload  : SUBSET {g \in DOMAIN gts :
                                   /\ InSeq(g, gcontext[c].state_list)
                                   /\ gts[g].cuda_module},
              destroy : SUBSET SubIndexes(c)]

\* the outcomes of a use of freed memory, where a call makes one
Faults(t) ==
    IF frame[t].gcontext \in memcxt_deleted THEN BOOLEAN ELSE {FALSE}

Release(t) ==
    \/ \E fail \in ReleaseFailures(t), fault \in Faults(t) :
          pgstrom_release_gpucontext(t, fail, fault)
    \/ release_return(t)

Next ==
    \/ \E owner \in Scopes, newparent \in Owners :
          ResourceOwnerNewParent(owner, newparent)
    \/ \E t \in Threads :
       \/ \E s \in Scopes : pgstrom_get_gpucontext_enter(t, s)
       \/ \E failure \in CreateFailures : pgstrom_get_gpucontext(t, failure)
       \/ \E c \in CtxIds : pgstrom_put_gpucontext_enter(t, c)
       \/ \E fault \in Faults(t) : pgstrom_put_gpucontext(t, fault)
       \/ \E is_commit \in BOOLEAN, s \in Scopes :
             gpucontext_cleanup_callback_enter(t, cleanup_phase, is_commit, s)
       \/ gpucontext_cleanup_callback(t)
       \/ Release(t)

Spec == Init /\ [][Next]_vars

(***************************************************************************)
(* The task level.  A holder of a GpuContext opens its device contexts,    *)
(* registers GpuTaskStates and GpuTasks on it and has tasks executed.      *)
(***************************************************************************)
MaxSubContexts == 2
MaxTaskStates == 1
MaxTasks == 2

\* a live GpuContext the caller holds a reference of
Usable(c) == c \in Allocated /\ held[c] > 0 /\ c \notin memcxt_deleted

\* The device contexts of a GpuContext, one per degree of concurrency n, on
\* the devices in turn; cuCtxCreate makes the new context current.
open_device_contexts(t, c, n) ==
    /\ ~Crashed
    /\ pc[t] = "idle"
    /\ Usable(c)
    /\ gcontext[c].num_context = 0
    /\ cuda_num_devices > 0
    /\ LET first == Len(cuda_context)
           new == [i \in 1..n |->
                      [device |-> cuda_device_ordinals[((i - 1) % cuda_num_devices) + 1],
                       destroyed |-> FALSE]]
       IN  /\ cuda_context' = cuda_context \o new
           /\ gcontext' = [gcontext EXCEPT
                              ![c].num_context = n,
                              ![c].dev_context = [i \in 1..n |-> first + i]]
           /\ cuda_current' = [cuda_current EXCEPT ![t] = first + n]
    /\ trace' = [trace EXCEPT ![t] = <<>>]
    /\ UNCHANGED <<gcontext_lock, gcontext_hash, gcontext_last, cuda_num_devices,
                   deviceVars, plcudaVars, memcxt_deleted, resowner_parent, pc,
                   frame, held, hist, taskVars, device_work>>

(***************************************************************************)
(* pgstrom_init_gputaststate (lines 274-296): the GpuTaskState is chained  *)
(* to state_list and initialized; with a kernel source                     *)
(* pgstrom_load_cuda_program loads the module or starts its build          *)
(* (loaded).                                                               *)
(***************************************************************************)
\* a GpuTaskState whose counter of pending tasks is left as allocated
init_gputaststate_stale(c, kern_source, cb_cleanup, loaded) ==
    [gcontext            |-> c,
     kern_source         |-> kern_source,
     cuda_module         |-> kern_source /\ loaded,
     tracked_tasks       |-> <<>>,
     running_tasks       |-> <<>>,
     pending_tasks       |-> <<>>,
     completed_tasks     |-> <<>>,
     num_running_tasks   |-> 0,
     num_pending_tasks   |-> 1,
     num_completed_tasks |-> 0,
     cb_cleanup          |-> cb_cleanup,
     cleaned             |-> 0]

\* lines 280-295: the fields of the GpuTaskState at the return
init_gputaststate_fields(c, kern_source, cb_cleanup, loaded) ==
    [gcontext            |-> c,
     kern_source         |-> kern_source,
     cuda_module         |-> kern_source /\ loaded,
     tracked_tasks       |-> <<>>,
     running_tasks       |-> <<>>,
     pending_tasks       |-> <<>>,
     completed_tasks     |-> <<>>,
     num_running_tasks   |-> 0,
     num_pending_tasks   |-> 0,
     num_completed_tasks |-> 0,
     cb_cleanup          |-> cb_cleanup,
     cleaned             |-> 0]

pgstrom_init_gputaststate(t, c, kern_source, cb_cleanup, loaded) ==
    /\ ~Crashed
    /\ pc[t] = "idle"
    /\ Usable(c)
    /\ Len(gts) < MaxTaskStates
    /\ LET g == Len(gts) + 1
       IN  /\ gcontext' = [gcontext EXCEPT
                              ![c].state_list = dlist_push_tail(@, g)]
           /\ gts' = Append(gts,
                  init_gputaststate_fields(c, kern_source, cb_cleanup, loaded))
           /\ trace' = [trace EXCEPT ![t] =
                            IF kern_source
                            THEN <<<<"pgstrom_load_cuda_program", g>>>>
                            ELSE <<>>]
    /\ UNCHANGED <<gcontext_lock, gcontext_hash, gcontext_last, cuda_num_devices,
                   deviceVars, plcudaVars, memcxt_deleted, resowner_parent, pc,
                   frame, held, hist, task, pds, cudaVars>>

(***************************************************************************)
(* A pgstrom_data_store made under a GpuContext is chained to its          *)
(* pds_list; one mapped from a file has its kds_fname.                     *)
(***************************************************************************)
MaxDataStores == 1

pgstrom_create_data_store(t, c, kds_fname) ==
    /\ ~Crashed
    /\ pc[t] = "idle"
    /\ Usable(c)
    /\ Len(pds) < MaxDataStores
    /\ LET p == Len(pds) + 1
       IN  /\ gcontext' = [gcontext EXCEPT
                              ![c].pds_list = dlist_push_tail(@, p)]
           /\ pds' = Append(pds, [gcontext  |-> c,
                                  kds_fname |-> kds_fname,
                                  mapped    |-> kds_fname,
                                  chained   |-> TRUE])
    /\ trace' = [trace EXCEPT ![t] = <<>>]
    /\ UNCHANGED <<gcontext_lock, gcontext_hash, gcontext_last, cuda_num_devices,
                   deviceVars, plcudaVars, memcxt_deleted, resowner_parent, pc,
                   frame, held, hist, gts, task, cudaVars>>

(***************************************************************************)
(* pgstrom_init_gputask (lines 298-333).  With num_context = 0 the modulo  *)
(* of line 310 divides by zero, which is undefined: the process ends there *)
(* (fault) or the index is 0 and dev_context[0] is the zero the allocation *)
(* left.  cuCtxGetDevice (line 312) answers for the context current before *)
(* the call.  An elog(ERROR) leaves the function at once.                  *)
(***************************************************************************)
TaskFailures == {"none", "cuCtxGetDevice", "cuCtxSetCurrent", "cuStreamCreate"}

\* line 310
task_context_index(cur_context, num_context) == cur_context % num_context

\* the device line 327 records: the one cuCtxGetDevice answered at line 312
task_cuda_device(current, chosen) == cuda_context[current].device

LiveContext(ctx) == ctx # NULL /\ ~cuda_context[ctx].destroyed

\* a GpuTask pushed to tracked_tasks before its stream is created
task_tracked_early(get_ok, set_ok, new_ok) == get_ok /\ set_ok

\* lines 313, 317, 321: the function goes on to line 324 when no call failed
task_tracked(get_ok, set_ok, new_ok) == get_ok /\ set_ok /\ new_ok

pgstrom_init_gputask(t, g, failure, fault) ==
    /\ ~Crashed
    /\ pc[t] = "idle"
    /\ g \in DOMAIN gts
    /\ Usable(gts[g].gcontext)
    /\ InSeq(g, gcontext[gts[g].gcontext].state_list)
    \* bound of the model: calls per GpuContext
    /\ gcontext[gts[g].gcontext].cur_context < MaxTasks
    /\ LET c       == gts[g].gcontext
           n       == gcontext[c].num_context
           index   == IF n = 0 THEN 0
                      ELSE task_context_index(gcontext[c].cur_context, n)
           chosen  == IF n = 0 THEN NULL ELSE gcontext[c].dev_context[index + 1]
           current == cuda_current[t]
           get_ok  == LiveContext(current) /\ failure # "cuCtxGetDevice"
           set_ok  == (chosen = NULL \/ LiveContext(chosen))
                      /\ failure # "cuCtxSetCurrent"
           new_ok  == chosen # NULL /\ failure # "cuStreamCreate"
           k       == Len(task) + 1
       IN  IF n = 0 /\ fault
           THEN /\ pc' = [pc EXCEPT ![t] = "crashed"]
                /\ UNCHANGED <<gcontext, gts, task, cuda_current, trace>>
           ELSE /\ gcontext' = [gcontext EXCEPT ![c].cur_context = @ + 1]
                /\ cuda_current' = [cuda_current EXCEPT ![t] =
                                       IF get_ok /\ set_ok THEN chosen ELSE @]
                /\ pc' = pc
                /\ IF task_tracked(get_ok, set_ok, new_ok)
                   THEN /\ task' = Append(task,
                               [gts          |-> g,
                                cuda_stream  |-> k,
                                cuda_device  |-> task_cuda_device(current, chosen),
                                cuda_context |-> chosen,
                                cb_release   |-> FALSE,
                                released     |-> 0])
                        /\ gts' = [gts EXCEPT
                                      ![g].tracked_tasks = dlist_push_tail(@, k)]
                   ELSE UNCHANGED <<gts, task>>
                /\ trace' = [trace EXCEPT ![t] =
                       IF ~get_ok THEN <<Error("failed on cuCtxGetDevice")>>
                       ELSE IF ~set_ok THEN <<Error("failed on cuCtxPushCurrent")>>
                       ELSE IF ~new_ok THEN <<Error("failed on cuStreamCreate")>>
                       ELSE <<>>]
    /\ UNCHANGED <<gcontext_lock, gcontext_hash, gcontext_last, cuda_num_devices,
                   deviceVars, plcudaVars, memcxt_deleted, resowner_parent,
                   frame, held, hist, pds, cuda_context, device_work>>

(***************************************************************************)
(* The caller of pgstrom_init_gputask stores the release callback of its   *)
(* task in the GpuTask.                                                    *)
(***************************************************************************)
store_cb_release(t, k) ==
    /\ ~Crashed
    /\ pc[t] = "idle"
    /\ k \in DOMAIN task
    /\ ~task[k].cb_release
    /\ task[k].released = 0
    /\ Usable(gts[task[k].gts].gcontext)
    /\ task' = [task EXCEPT ![k].cb_release = TRUE]
    /\ UNCHANGED <<gcontext_lock, gcontext_hash, gcontext_last, cuda_num_devices,
                   deviceVars, plcudaVars, gcontext, memcxt_deleted, resowner_parent,
                   pc, frame, held, trace, hist, gts, pds, cudaVars>>

(***************************************************************************)
(* The life of a task on its device: the caller launches its work on the   *)
(* stream of the task (running), the device completes it.                  *)
(***************************************************************************)
launch_task(t, k) ==
    /\ ~Crashed
    /\ pc[t] = "idle"
    /\ k \in DOMAIN task
    /\ task[k].released = 0
    /\ Usable(gts[task[k].gts].gcontext)
    /\ LiveContext(task[k].cuda_context)
    /\ k \notin device_work
    /\ device_work' = device_work \cup {k}
    /\ UNCHANGED <<gcontext_lock, gcontext_hash, gcontext_last, cuda_num_devices,
                   deviceVars, plcudaVars, gcontext, memcxt_deleted, resowner_parent,
                   pc, frame, held, trace, hist, taskVars, cuda_context,
                   cuda_current>>

device_completes(k) ==
    /\ k \in device_work
    /\ device_work' = device_work \ {k}
    /\ UNCHANGED <<gcontext_lock, gcontext_hash, gcontext_last, cuda_num_devices,
                   deviceVars, plcudaVars, gcontext, memcxt_deleted, resowner_parent,
                   pc, frame, held, trace, hist, taskVars, cuda_context,
                   cuda_current>>

(***************************************************************************)
(* One backend working with the GpuContext of one owner, its task states   *)
(* and tasks, up to the teardown by the last put or by the cleanup         *)
(* callback and the calls made after it.                                   *)
(***************************************************************************)
NextTask ==
    \E t \in {1} :
       \/ \E s \in {1} :
             /\ gcontext = <<>> \/ RegisteredFor(s) # {}
             /\ pgstrom_get_gpucontext_enter(t, s)
       \/ \E failure \in CreateFailures : pgstrom_get_gpucontext(t, failure)
       \/ \E c \in CtxIds, n \in 1..MaxSubContexts : open_device_contexts(t, c, n)
       \/ \E c \in CtxIds, kern_source \in BOOLEAN, cb_cleanup \in BOOLEAN,
             loaded \in BOOLEAN :
             pgstrom_init_gputaststate(t, c, kern_source, cb_cleanup, loaded)
       \/ \E c \in CtxIds, kds_fname \in BOOLEAN :
             pgstrom_create_data_store(t, c, kds_fname)
       \/ \E g \in 1..MaxTaskStates, failure \in TaskFailures, fault \in BOOLEAN :
             pgstrom_init_gputask(t, g, failure, fault)
       \/ \E k \in 1..MaxTasks : store_cb_release(t, k)
       \/ \E k \in 1..MaxTasks : launch_task(t, k)
       \/ \E k \in 1..MaxTasks : device_completes(k)
       \/ \E c \in CtxIds : pgstrom_put_gpucontext_enter(t, c)
       \/ \E fault \in Faults(t) : pgstrom_put_gpucontext(t, fault)
       \/ \E is_commit \in BOOLEAN, s \in {1} :
             gpucontext_cleanup_callback_enter(t, cleanup_phase, is_commit, s)
       \/ gpucontext_cleanup_callback(t)
       \/ Release(t)

SpecTask == Init /\ [][NextTask]_vars

(***************************************************************************)
(* The caller lets go of what it registered.  A task whose work is done is *)
(* taken off the tracked collection of its task state and destroyed by its *)
(* release callback; a task state without tasks is taken off the           *)
(* state_list of its GpuContext and its module unloaded.                   *)
(***************************************************************************)
release_gputask(t, k) ==
    /\ ~Crashed
    /\ pc[t] = "idle"
    /\ k \in DOMAIN task
    /\ Usable(gts[task[k].gts].gcontext)
    /\ InSeq(k, gts[task[k].gts].tracked_tasks)
    /\ k \notin device_work
    /\ gts' = [gts EXCEPT ![task[k].gts].tracked_tasks = dlist_delete(@, k)]
    /\ task' = [task EXCEPT ![k].released = @ + 1]
    /\ trace' = [trace EXCEPT ![t] = <<>>]
    /\ UNCHANGED <<gcontext_lock, gcontext_hash, gcontext_last, cuda_num_devices,
                   deviceVars, plcudaVars, gcontext, memcxt_deleted, resowner_parent,
                   pc, frame, held, hist, pds, cudaVars>>

release_gputaskstate(t, g) ==
    /\ ~Crashed
    /\ pc[t] = "idle"
    /\ g \in DOMAIN gts
    /\ Usable(gts[g].gcontext)
    /\ InSeq(g, gcontext[gts[g].gcontext].state_list)
    /\ gts[g].tracked_tasks = <<>>
    /\ gcontext' = [gcontext EXCEPT
                       ![gts[g].gcontext].state_list = dlist_delete(@, g)]
    /\ gts' = [gts EXCEPT ![g].cuda_module = FALSE]
    /\ trace' = [trace EXCEPT ![t] = <<>>]
    /\ UNCHANGED <<gcontext_lock, gcontext_hash, gcontext_last, cuda_num_devices,
                   deviceVars, plcudaVars, memcxt_deleted, resowner_parent,
                   pc, frame, held, hist, task, pds, cudaVars>>

(***************************************************************************)
(* One backend that acquires the GpuContext of one owner, works with task  *)
(* states and tasks, lets go of them and puts the GpuContext; the cleanup  *)
(* callback is not called.                                                 *)
(***************************************************************************)
NextRun ==
    \E t \in {1} :
       \/ \E s \in {1} :
             /\ gcontext = <<>> \/ RegisteredFor(s) # {}
             /\ pgstrom_get_gpucontext_enter(t, s)
       \/ \E failure \in CreateFailures : pgstrom_get_gpucontext(t, failure)
       \/ \E c \in CtxIds, n \in 1..MaxSubContexts : open_device_contexts(t, c, n)
       \/ \E c \in CtxIds, kern_source \in BOOLEAN, cb_cleanup \in BOOLEAN,
             loaded \in BOOLEAN :
             pgstrom_init_gputaststate(t, c, kern_source, cb_cleanup, loaded)
       \/ \E g \in 1..MaxTaskStates, failure \in TaskFailures, fault \in BOOLEAN :
             pgstrom_init_gputask(t, g, failure, fault)
       \/ \E k \in 1..MaxTasks : store_cb_release(t, k)
       \/ \E k \in 1..MaxTasks : launch_task(t, k)
       \/ \E k \in 1..MaxTasks : device_completes(k)
       \/ \E k \in 1..MaxTasks : release_gputask(t, k)
       \/ \E g \in 1..MaxTaskStates : release_gputaskstate(t, g)
       \/ \E c \in CtxIds : pgstrom_put_gpucontext_enter(t, c)
       \/ \E fault \in Faults(t) : pgstrom_put_gpucontext(t, fault)
       \/ Release(t)

SpecRun == Init /\ [][NextRun]_vars

(***************************************************************************)
(* Backends that register task states on the GpuContexts of two owners.    *)
(***************************************************************************)
NextState ==
    \E t \in Threads :
       \/ \E s \in Scopes : pgstrom_get_gpucontext_enter(t, s)
       \/ \E failure \in CreateFailures : pgstrom_get_gpucontext(t, failure)
       \/ \E c \in CtxIds, kern_source \in BOOLEAN, cb_cleanup \in BOOLEAN,
             loaded \in BOOLEAN :
             pgstrom_init_gputaststate(t, c, kern_source, cb_cleanup, loaded)
       \/ \E c \in CtxIds : pgstrom_put_gpucontext_enter(t, c)
       \/ \E fault \in Faults(t) : pgstrom_put_gpucontext(t, fault)
       \/ Release(t)

SpecState == Init /\ [][NextState]_vars

(***************************************************************************)
(* One backend with the GpuContexts of two owners, their task states and   *)
(* tasks, put and cleaned up in any order.                                 *)
(***************************************************************************)
NextOwn ==
    \E t \in {1} :
       \/ \E s \in Scopes : pgstrom_get_gpucontext_enter(t, s)
       \/ \E failure \in {"none"} : pgstrom_get_gpucontext(t, failure)
       \/ \E c \in CtxIds, n \in {1} : open_device_contexts(t, c, n)
       \/ \E c \in CtxIds, kern_source \in {FALSE}, cb_cleanup \in {FALSE},
             loaded \in {FALSE} :
             pgstrom_init_gputaststate(t, c, kern_source, cb_cleanup, loaded)
       \/ \E g \in 1..MaxTaskStates, failure \in {"none"}, fault \in {FALSE} :
             pgstrom_init_gputask(t, g, failure, fault)
       \/ \E k \in 1..MaxTasks : store_cb_release(t, k)
       \/ \E c \in CtxIds : pgstrom_put_gpucontext_enter(t, c)
       \/ \E fault \in Faults(t) : pgstrom_put_gpucontext(t, fault)
       \/ \E is_commit \in {FALSE}, s \in Scopes :
             gpucontext_cleanup_callback_enter(t, cleanup_phase, is_commit, s)
       \/ gpucontext_cleanup_callback(t)
       \/ Release(t)

SpecOwn == Init /\ [][NextOwn]_vars

(***************************************************************************)
(* One backend whose host calls the cleanup callback at every phase of the *)
(* release of an owner.                                                    *)
(***************************************************************************)
NextHook ==
    \E t \in {1} :
       \/ \E s \in Scopes : pgstrom_get_gpucontext_enter(t, s)
       \/ \E failure \in CreateFailures : pgstrom_get_gpucontext(t, failure)
       \/ \E c \in CtxIds : pgstrom_put_gpucontext_enter(t, c)
       \/ \E fault \in Faults(t) : pgstrom_put_gpucontext(t, fault)
       \/ \E phase \in Phases, is_commit \in BOOLEAN, s \in Scopes :
             gpucontext_cleanup_callback_enter(t, phase, is_commit, s)
       \/ gpucontext_cleanup_callback(t)
       \/ Release(t)

SpecHook == Init /\ [][NextHook]_vars

(***************************************************************************)
(* One backend with the GpuContexts of two owners and a task state, while  *)
(* the host moves owners under another parent and calls the cleanup        *)
(* callback for either owner.                                              *)
(***************************************************************************)
NextFrame ==
    \/ \E owner \in Scopes, newparent \in Owners :
          ResourceOwnerNewParent(owner, newparent)
    \/ \E t \in {1} :
       \/ \E s \in Scopes : pgstrom_get_gpucontext_enter(t, s)
       \/ \E failure \in {"none"} : pgstrom_get_gpucontext(t, failure)
       \/ \E c \in CtxIds, kern_source \in {FALSE}, cb_cleanup \in BOOLEAN,
             loaded \in {FALSE} :
             pgstrom_init_gputaststate(t, c, kern_source, cb_cleanup, loaded)
       \/ \E c \in CtxIds : pgstrom_put_gpucontext_enter(t, c)
       \/ \E fault \in Faults(t) : pgstrom_put_gpucontext(t, fault)
       \/ \E is_commit \in BOOLEAN, s \in Scopes :
             gpucontext_cleanup_callback_enter(t, cleanup_phase, is_commit, s)
       \/ gpucontext_cleanup_callback(t)
       \/ Release(t)

SpecFrame == Init /\ [][NextFrame]_vars

(***************************************************************************)
(* The lifecycle of a task in the collections of its task state: a tracked *)
(* task is queued (pending), submitted to its stream (running) and seen    *)
(* complete (completed).  The teardown's loop over tracked_tasks is lines  *)
(* 204-213.                                                                *)
(***************************************************************************)
\* the collection of its task state a task is linked in by its chain
Lifecycle(k) ==
    LET g == task[k].gts
    IN  IF InSeq(k, gts[g].pending_tasks) THEN "pending"
        ELSE IF InSeq(k, gts[g].running_tasks) THEN "running"
        ELSE IF InSeq(k, gts[g].completed_tasks) THEN "completed"
        ELSE "tracked"

\* a task the caller can work with
Workable(k) ==
    /\ k \in DOMAIN task
    /\ task[k].released = 0
    /\ Usable(gts[task[k].gts].gcontext)
    /\ InSeq(k, gts[task[k].gts].tracked_tasks)

task_pending(t, k) ==
    /\ ~Crashed
    /\ pc[t] = "idle"
    /\ Workable(k)
    /\ Lifecycle(k) = "tracked"
    /\ gts' = [gts EXCEPT
                  ![task[k].gts].pending_tasks = dlist_push_tail(@, k),
                  ![task[k].gts].num_pending_tasks = @ + 1]
    /\ UNCHANGED <<registryVars, deviceVars, plcudaVars, task, pds, cudaVars>>

task_running(t, k) ==
    /\ ~Crashed
    /\ pc[t] = "idle"
    /\ Workable(k)
    /\ Lifecycle(k) = "pending"
    /\ LiveContext(task[k].cuda_context)
    /\ gts' = [gts EXCEPT
                  ![task[k].gts].pending_tasks = dlist_delete(@, k),
                  ![task[k].gts].num_pending_tasks = @ - 1,
                  ![task[k].gts].running_tasks = dlist_push_tail(@, k),
                  ![task[k].gts].num_running_tasks = @ + 1]
    /\ device_work' = device_work \cup {k}
    /\ UNCHANGED <<registryVars, deviceVars, plcudaVars, task, pds,
                   cuda_context, cuda_current>>

task_completed(t, k) ==
    /\ ~Crashed
    /\ pc[t] = "idle"
    /\ Workable(k)
    /\ Lifecycle(k) = "running"
    /\ gts' = [gts EXCEPT
                  ![task[k].gts].running_tasks = dlist_delete(@, k),
                  ![task[k].gts].num_running_tasks = @ - 1,
                  ![task[k].gts].completed_tasks = dlist_push_tail(@, k),
                  ![task[k].gts].num_completed_tasks = @ + 1]
    /\ device_work' = device_work \ {k}
    /\ UNCHANGED <<registryVars, deviceVars, plcudaVars, task, pds,
                   cuda_context, cuda_current>>

\* One backend with the GpuContext of one owner, a task state and its tasks
\* in every state of their lifecycle, up to the teardown.
NextLife ==
    \E t \in {1} :
       \/ \E s \in {1} :
             /\ gcontext = <<>>
             /\ pgstrom_get_gpucontext_enter(t, s)
       \/ \E failure \in {"none"} : pgstrom_get_gpucontext(t, failure)
       \/ \E c \in CtxIds, n \in {1} : open_device_contexts(t, c, n)
       \/ \E c \in CtxIds, kern_source \in {FALSE}, cb_cleanup \in BOOLEAN,
             loaded \in {FALSE} :
             pgstrom_init_gputaststate(t, c, kern_source, cb_cleanup, loaded)
       \/ \E g \in 1..MaxTaskStates, failure \in {"none"}, fault \in {FALSE} :
             pgstrom_init_gputask(t, g, failure, fault)
       \/ \E k \in 1..MaxTasks : store_cb_release(t, k)
       \/ \E k \in 1..MaxTasks : task_pending(t, k)
       \/ \E k \in 1..MaxTasks : task_running(t, k)
       \/ \E k \in 1..MaxTasks : task_completed(t, k)
       \/ \E c \in CtxIds : pgstrom_put_gpucontext_enter(t, c)
       \/ \E fault \in Faults(t) : pgstrom_put_gpucontext(t, fault)
       \/ \E is_commit \in BOOLEAN, s \in {1} :
             gpucontext_cleanup_callback_enter(t, cleanup_phase, is_commit, s)
       \/ gpucontext_cleanup_callback(t)
       \/ Release(t)

SpecLife == Init /\ [][NextLife]_vars

(***************************************************************************)
(* pgstrom_compute_workgroup_size (lines 385-457).  The call starts with   *)
(* its arguments and with what the driver will report of the function and  *)
(* of the device; the shrinking loop of lines 432-434 takes one step per   *)
(* iteration.                                                              *)
(***************************************************************************)
\* bytes of shared memory: of a kernel, and of a device per block
MaxShmemBytes == 4
\* bytes of dynamic shared memory asked per thread
MaxShmemPerThread == 2
\* the kernel's CU_FUNC_ATTRIBUTE_MAX_THREADS_PER_BLOCK
MaxThreadsPerBlock == 4
\* the device's CU_DEVICE_ATTRIBUTE_WARP_SIZE
MaxWarpSize == 2
\* the nitems argument
MaxItems == 5

WorkgroupCalls ==
    {[NoWorkgroup EXCEPT
         !.pc = "call",
         !.function = [shared_size_bytes |-> ssb, max_threads_per_block |-> mtb],
         !.device = [max_shared_memory_per_block |-> msb, warp_size |-> ws],
         !.maximum_blocksize = mode,
         !.nitems = n,
         !.dynamic_shmem_per_thread = dpt] :
        ssb \in 0..MaxShmemBytes, mtb \in 1..MaxThreadsPerBlock,
        msb \in 0..MaxShmemBytes, ws \in 1..MaxWarpSize,
        mode \in BOOLEAN, n \in 0..MaxItems, dpt \in 0..MaxShmemPerThread}

InitWorkgroup ==
    /\ InitBackend
    /\ Started(DefaultMachine)
    /\ workgroup \in WorkgroupCalls
    /\ device_info = NoDeviceInfo
    /\ expand_source = NoExpand

\* the driver calls of the function that can fail
WorkgroupFailures ==
    {"none", "cuFuncGetAttribute", "cuDeviceGetAttribute",
     "cuOccupancyMaxPotentialBlockSize"}

\* a loop that also shrinks a block that just fits
shmem_reaches(shmem_per_block, shmem_per_thread, block_size, maximum) ==
    LET total == shmem_per_block + (shmem_per_thread * block_size)
    IN  total < 0 \/ ~(total < maximum)

\* the condition of lines 432-433.  The sum is computed in size_t, where a
\* negative block_size makes it wrap: a sum below zero stands for that sum
\* plus 2^64, which is above every int
shmem_exceeds(shmem_per_block, shmem_per_thread, block_size, maximum) ==
    LET total == shmem_per_block + (shmem_per_thread * block_size)
    IN  total < 0 \/ total > maximum

\* a test that only rejects a negative block size
block_size_negative(block_size, warp_size) == block_size < 0

\* line 436
block_size_too_small(block_size, warp_size) == block_size < warp_size

\* line 440
grid_size_for(nitems, block_size) == (nitems + block_size - 1) \div block_size

\* the grid the driver suggested
grid_size_of_driver(nitems, grid_size, block_size) == grid_size

\* the block sizes the model tells apart: the loop leaves every lower one
\* only when dynamic_shmem_per_thread is positive, and then before this one
BlockSizeFloor == 0 - (MaxShmemBytes + 1)

\* lines 402-431 and 442-456: the driver queries, and in occupancy mode the
\* whole of the function.  occupancy is what cuOccupancyMaxPotentialBlockSize
\* answers: <<minimum grid size, block size>>
compute_workgroup_size_enter(failure, occupancy) ==
    /\ workgroup.pc = "call"
    /\ failure = "cuDeviceGetAttribute" => workgroup.maximum_blocksize
    /\ failure = "cuOccupancyMaxPotentialBlockSize" => ~workgroup.maximum_blocksize
    /\ workgroup' =
           IF failure # "none"
           THEN [workgroup EXCEPT !.pc = "raised", !.log = <<Error(failure)>>]
           ELSE IF workgroup.maximum_blocksize
           THEN [workgroup EXCEPT
                    !.pc = "shrink",
                    !.dynamic_shmem_per_block = workgroup.function.shared_size_bytes,
                    !.block_size = workgroup.function.max_threads_per_block,
                    !.maximum_shmem_per_block =
                        workgroup.device.max_shared_memory_per_block,
                    !.warp_size = workgroup.device.warp_size]
           ELSE [workgroup EXCEPT
                    !.pc = "returned",
                    !.dynamic_shmem_per_block = workgroup.function.shared_size_bytes,
                    !.grid_size = occupancy[1],
                    !.block_size = occupancy[2],
                    !.p_grid_size = grid_size_of_driver(workgroup.nitems,
                                        occupancy[1], occupancy[2]),
                    !.p_block_size = occupancy[2]]
    /\ UNCHANGED <<gcontext_lock, gcontext_hash, gcontext_last, cuda_num_devices,
                   cuda_device_ordinals, gcontext, memcxt_deleted, resowner_parent,
                   pc, frame, held, trace, hist, taskVars, cudaVars, machine,
                   cuda_max_malloc_size, cuda_max_threads_per_block,
                   cuda_compute_capability, startup, device_info,
                   plcudaVars>>

\* one iteration of the loop of lines 432-434
compute_workgroup_size_shrink ==
    /\ workgroup.pc = "shrink"
    /\ shmem_exceeds(workgroup.dynamic_shmem_per_block,
                     workgroup.dynamic_shmem_per_thread,
                     workgroup.block_size, workgroup.maximum_shmem_per_block)
    /\ workgroup.block_size > BlockSizeFloor
    /\ workgroup' = [workgroup EXCEPT !.block_size = @ - 1]
    /\ UNCHANGED <<gcontext_lock, gcontext_hash, gcontext_last, cuda_num_devices,
                   cuda_device_ordinals, gcontext, memcxt_deleted, resowner_parent,
                   pc, frame, held, trace, hist, taskVars, cudaVars, machine,
                   cuda_max_malloc_size, cuda_max_threads_per_block,
                   cuda_compute_capability, startup, device_info,
                   plcudaVars>>

\* lines 436-440, once the loop has ended
compute_workgroup_size_return ==
    /\ workgroup.pc = "shrink"
    /\ ~shmem_exceeds(workgroup.dynamic_shmem_per_block,
                      workgroup.dynamic_shmem_per_thread,
                      workgroup.block_size, workgroup.maximum_shmem_per_block)
    /\ workgroup' =
           IF block_size_too_small(workgroup.block_size, workgroup.warp_size)
           THEN [workgroup EXCEPT
                    !.pc = "raised",
                    !.log = <<Error("Expected block size is too small")>>]
           ELSE [workgroup EXCEPT
                    !.pc = "returned",
                    !.p_block_size = workgroup.block_size,
                    !.p_grid_size = grid_size_for(workgroup.nitems,
                                                  workgroup.block_size)]
    /\ UNCHANGED <<gcontext_lock, gcontext_hash, gcontext_last, cuda_num_devices,
                   cuda_device_ordinals, gcontext, memcxt_deleted, resowner_parent,
                   pc, frame, held, trace, hist, taskVars, cudaVars, machine,
                   cuda_max_malloc_size, cuda_max_threads_per_block,
                   cuda_compute_capability, startup, device_info,
                   plcudaVars>>

NextWorkgroup ==
    \/ \E failure \in WorkgroupFailures,
          occupancy \in (1..MaxItems) \X (1..MaxThreadsPerBlock) :
          compute_workgroup_size_enter(failure, occupancy)
    \/ compute_workgroup_size_shrink
    \/ compute_workgroup_size_return

SpecWorkgroup == InitWorkgroup /\ [][NextWorkgroup]_vars

\* The function runs in one thread from its call to its return or error: a
\* step of it that can be taken is taken.
SpecWorkgroupFair == SpecWorkgroup /\ WF_vars(NextWorkgroup)

(***************************************************************************)
(* pgstrom_init_cuda_control (lines 557-596), called once when the         *)
(* postmaster loads the module.  Before it no bucket of gcontext_hash has  *)
(* been through dlist_init: gcontext_hash is the function on those that    *)
(* have.  An elog(ERROR) at this time ends the startup.                    *)
(***************************************************************************)
InitStartup ==
    /\ InitBackend
    /\ machine \in Machines
    /\ gcontext_lock = FALSE
    /\ gcontext_hash = <<>>
    /\ cuda_device_ordinals = BeforeStartup.cuda_device_ordinals
    /\ cuda_max_malloc_size = BeforeStartup.cuda_max_malloc_size
    /\ cuda_max_threads_per_block = BeforeStartup.cuda_max_threads_per_block
    /\ cuda_compute_capability = BeforeStartup.cuda_compute_capability
    /\ startup = [pc |-> "boot", log |-> <<>>, callbacks |-> <<>>]
    /\ workgroup = NoWorkgroup
    /\ device_info = NoDeviceInfo
    /\ expand_source = NoExpand

\* the driver calls made before the first device is looked at
StartupFailures == {"none", "cuInit", "cuDeviceGetCount"}

pgstrom_init_cuda_control(failure) ==
    /\ startup.pc = "boot"
    /\ IF failure # "none"
       THEN \* lines 567-576
            /\ startup' = [startup EXCEPT !.pc = "failed",
                                          !.log = <<Error(failure)>>]
            /\ UNCHANGED <<gcontext_lock, gcontext_hash, cuda_device_ordinals,
                           cuda_max_malloc_size, cuda_max_threads_per_block,
                           cuda_compute_capability>>
       ELSE \E st \in {enumerate_devices(machine, 0,
                          [BeforeStartup EXCEPT
                              !.cuda_device_ordinals = cuda_device_ordinals,
                              !.cuda_max_malloc_size = cuda_max_malloc_size,
                              !.cuda_max_threads_per_block =
                                  cuda_max_threads_per_block,
                              !.cuda_compute_capability =
                                  cuda_compute_capability])} :
            /\ cuda_device_ordinals' = st.cuda_device_ordinals
            /\ cuda_max_malloc_size' = st.cuda_max_malloc_size
            /\ cuda_max_threads_per_block' = st.cuda_max_threads_per_block
            /\ cuda_compute_capability' = st.cuda_compute_capability
            /\ IF startup_fails(st.cuda_device_ordinals)
               THEN \* lines 586-587
                    /\ startup' =
                           [startup EXCEPT
                               !.pc = "failed",
                               !.log = Append(st.log,
                                   Error("no CUDA device found on the system"))]
                    /\ UNCHANGED <<gcontext_lock, gcontext_hash>>
               ELSE \* lines 592-595
                    /\ gcontext_lock' = FALSE
                    /\ gcontext_hash' = [h \in 0..(HashSize - 1) |-> <<>>]
                    /\ startup' =
                           [startup EXCEPT
                               !.pc = "done",
                               !.log = st.log,
                               !.callbacks = Append(@, CleanupCallback)]
    /\ UNCHANGED <<gcontext_last, cuda_num_devices, gcontext, memcxt_deleted,
                   resowner_parent, pc, frame, held, trace, hist, taskVars,
                   cudaVars, machine, workgroup, device_info,
                   plcudaVars>>

NextStartup == \E failure \in StartupFailures : pgstrom_init_cuda_control(failure)

SpecStartup == InitStartup /\ [][NextStartup]_vars

(***************************************************************************)
(* pgstrom_device_info (lines 659-857), a set-returning function: the      *)
(* executor calls it with call_cntr = 0, 1, 2, ... until it reports        *)
(* completion.  A row is what one call returns: id, attribute and value,   *)
(* the value as the format applied and what it was applied to.             *)
(***************************************************************************)
\* the table of lines 666-751
catalog ==
    <<
      [attrib |-> "MAX_THREADS_PER_BLOCK",
       attname |-> "max threads per block",
       attkind |-> "DEVATTR_INT"],
      [attrib |-> "MAX_BLOCK_DIM_X",
       attname |-> "Maximum block dimension X",
       attkind |-> "DEVATTR_INT"],
      [attrib |-> "MAX_BLOCK_DIM_Y",
       attname |-> "Maximum block dimension Y",
       attkind |-> "DEVATTR_INT"],
      [attrib |-> "MAX_BLOCK_DIM_Z",
       attname |-> "Maximum block dimension Z",
       attkind |-> "DEVATTR_INT"],
      [attrib |-> "MAX_GRID_DIM_X",
       attname |-> "Maximum grid dimension X",
       attkind |-> "DEVATTR_INT"],
      [attrib |-> "MAX_GRID_DIM_Y",
       attname |-> "Maximum grid dimension Y",
       attkind |-> "DEVATTR_INT"],
      [attrib |-> "MAX_GRID_DIM_Z",
       attname |-> "Maximum grid dimension Z",
       attkind |-> "DEVATTR_INT"],
      [attrib |-> "MAX_SHARED_MEMORY_PER_BLOCK",
       attname |-> "Maximum shared memory available per block",
       attkind |-> "DEVATTR_KB"],
      [attrib |-> "TOTAL_CONSTANT_MEMORY",
       attname |-> "Memory available on device for __constant__",
       attkind |-> "DEVATTR_KB"],
      [attrib |-> "WARP_SIZE",
       attname |-> "Warp size in threads",
       attkind |-> "DEVATTR_INT"],
      [attrib |-> "MAX_PITCH",
       attname |-> "Maximum pitch in bytes allowed by memory copies",
       attkind |-> "DEVATTR_INT"],
      [attrib |-> "MAX_REGISTERS_PER_BLOCK",
       attname |-> "Maximum number of 32bit registers available per block",
       attkind |-> "DEVATTR_INT"],
      [attrib |-> "CLOCK_RATE",
       attname |-> "Typical clock frequency in kilohertz",
       attkind |-> "DEVATTR_MHZ"],
      [attrib |-> "TEXTURE_ALIGNMENT",
       attname |-> "Alignment requirement for textures",
       attkind |-> "DEVATTR_INT"],
      [attrib |-> "MULTIPROCESSOR_COUNT",
       attname |-> "Number of multiprocessors on device",
       attkind |-> "DEVATTR_INT"],
      [attrib |-> "KERNEL_EXEC_TIMEOUT",
       attname |-> "Has kernel execution timeout",
       attkind |-> "DEVATTR_BOOL"],
      [attrib |-> "INTEGRATED",
       attname |-> "Integrated with host memory",
       attkind |-> "DEVATTR_BOOL"],
      [attrib |-> "CAN_MAP_HOST_MEMORY",
       attname |-> "Host memory can be mapped to CUDA address space",
       attkind |-> "DEVATTR_BOOL"],
      [attrib |-> "COMPUTE_MODE",
       attname |-> "Compute mode",
       attkind |-> "DEVATTR_COMP_MODE"],
      [attrib |-> "SURFACE_ALIGNMENT",
       attname |-> "Alignment requirement for surfaces",
       attkind |-> "DEVATTR_INT"],
      [attrib |-> "CONCURRENT_KERNELS",
       attname |-> "Multiple concurrent kernel support",
       attkind |-> "DEVATTR_BOOL"],
      [attrib |-> "ECC_ENABLED",
       attname |-> "Device has ECC support enabled",
       attkind |-> "DEVATTR_BOOL"],
      [attrib |-> "PCI_BUS_ID",
       attname |-> "PCI bus ID of the device",
       attkind |-> "DEVATTR_INT"],
      [attrib |-> "PCI_DEVICE_ID",
       attname |-> "PCI device ID of the device",
       attkind |-> "DEVATTR_INT"],
      [attrib |-> "TCC_DRIVER",
       attname |-> "Device is using TCC driver model",
       attkind |-> "DEVATTR_BOOL"],
      [attrib |-> "MEMORY_CLOCK_RATE",
       attname |-> "Peak memory clock frequency",
       attkind |-> "DEVATTR_MHZ"],
      [attrib |-> "GLOBAL_MEMORY_BUS_WIDTH",
       attname |-> "Global memory bus width",
       attkind |-> "DEVATTR_BITS"],
      [attrib |-> "L2_CACHE_SIZE",
       attname |-> "Size of L2 cache in bytes",
       attkind |-> "DEVATTR_KB"],
      [attrib |-> "MAX_THREADS_PER_MULTIPROCESSOR",
       attname |-> "Maximum threads per multiprocessor",
       attkind |-> "DEVATTR_INT"],
      [attrib |-> "ASYNC_ENGINE_COUNT",
       attname |-> "Number of asynchronous engines",
       attkind |-> "DEVATTR_INT"],
      [attrib |-> "UNIFIED_ADDRESSING",
       attname |-> "Device shares unified address space",
       attkind |-> "DEVATTR_BOOL"],
      [attrib |-> "PCI_DOMAIN_ID",
       attname |-> "PCI domain ID of the device",
       attkind |-> "DEVATTR_INT"],
      [attrib |-> "COMPUTE_CAPABILITY_MAJOR",
       attname |-> "Major compute capability version number",
       attkind |-> "DEVATTR_INT"],
      [attrib |-> "COMPUTE_CAPABILITY_MINOR",
       attname |-> "Minor compute capability version number",
       attkind |-> "DEVATTR_INT"],
      [attrib |-> "STREAM_PRIORITIES_SUPPORTED",
       attname |-> "Device supports stream priorities",
       attkind |-> "DEVATTR_BOOL"],
      [attrib |-> "GLOBAL_L1_CACHE_SUPPORTED",
       attname |-> "Device supports caching globals in L1",
       attkind |-> "DEVATTR_BOOL"],
      [attrib |-> "LOCAL_L1_CACHE_SUPPORTED",
       attname |-> "Device supports caching locals in L1",
       attkind |-> "DEVATTR_BOOL"],
      [attrib |-> "MAX_SHARED_MEMORY_PER_MULTIPROCESSOR",
       attname |-> "Maximum shared memory per multiprocessor",
       attkind |-> "DEVATTR_KB"],
      [attrib |-> "MAX_REGISTERS_PER_MULTIPROCESSOR",
       attname |-> "Maximum number of 32bit registers per multiprocessor",
       attkind |-> "DEVATTR_INT"],
      [attrib |-> "MANAGED_MEMORY",
       attname |-> "Device can allocate managed memory on this system",
       attkind |-> "DEVATTR_BOOL"],
      [attrib |-> "MULTI_GPU_BOARD",
       attname |-> "Device is on a multi-GPU board",
       attkind |-> "DEVATTR_BOOL"],
      [attrib |-> "MULTI_GPU_BOARD_GROUP_ID",
       attname |-> "Unique id if device is on a multi-GPU board",
       attkind |-> "DEVATTR_INT"]
    >>

\* the machines a backend can find itself on, of one or two devices
InfoMachines ==
    {m \in UNION {[1..n -> {DefaultMachine[1],
                            [DefaultMachine[1] EXCEPT
                                !.dev_cap_major = KeplerMajor - 1,
                                !.dev_mem_sz = 3 * MB + 1]}] : n \in 1..2} :
        \E i \in DOMAIN m : device_supported(m[i].dev_cap_major)}

InitInfo ==
    /\ InitBackend
    /\ \E m \in InfoMachines : Started(m)
    /\ workgroup = NoWorkgroup
    /\ device_info = NoDeviceInfo
    /\ expand_source = NoExpand

\* the driver calls of one call: those of pgstrom_init_cuda (lines 56-69) and
\* the query of the row
InfoFailures == {"none", "cuInit", "cuDeviceGet", "query"}

\* what reading an indeterminate pointer or the memory behind the table can
\* do: the call goes on with whatever was there, an elog(ERROR), or the end
\* of the process
Indeterminate == {"garbage", "error", "crash"}

\* whether catalog[index] of C is an entry of the table
in_catalog(index) == index < Len(catalog)

\* the entry that catalog[index] of C denotes
catalog_at(index) == catalog[index + 1]

\* lines 826-847: the value of a row of attribute kind attkind
format_property(attkind) ==
    IF attkind = "DEVATTR_BOOL" THEN "True or False"
    ELSE IF attkind = "DEVATTR_INT" THEN "%d"
    ELSE IF attkind = "DEVATTR_KB" THEN "%d KBytes"
    ELSE IF attkind = "DEVATTR_MHZ" THEN "%d MHz"
    ELSE IF attkind = "DEVATTR_BITS" THEN "%d bits"
    ELSE "not assigned"

\* lines 785-856 for a device that exists
device_info_row(dindex, aindex, failure, undefined) ==
    LET ordinal == cuda_device_ordinals[dindex + 1]
        returned(att_name, att_value) ==
            [device_info EXCEPT
                !.pc = "next",
                !.call_cntr = @ + 1,
                !.rows = Append(@, [id |-> dindex, attribute |-> att_name,
                                    value |-> att_value, aindex |-> aindex])]
        raised(msg) == [device_info EXCEPT !.pc = "raised", !.log = <<Error(msg)>>]
        crashed == [device_info EXCEPT !.pc = "crashed"]
    IN  IF aindex = 0
        THEN IF failure = "query" THEN raised("failed on cuDeviceGetName")
             ELSE returned("Device name", <<"%s", "cuDeviceGetName", ordinal>>)
        ELSE IF aindex = 1
        THEN IF failure = "query" THEN raised("failed on cuDeviceTotalMem")
             ELSE returned("Total global memory size",
                           <<"%zu MBytes", machine[ordinal + 1].dev_mem_sz \div MB>>)
        ELSE IF ~in_catalog(aindex)
        THEN \* catalog[aindex] is behind the table
             IF undefined = "crash" THEN crashed
             ELSE IF undefined = "error" \/ failure = "query"
             THEN raised("failed on cuDeviceGetAttribute")
             ELSE returned("garbage", <<"garbage">>)
        ELSE IF failure = "query" THEN raised("failed on cuDeviceGetAttribute")
        ELSE IF catalog_at(aindex).attkind = "DEVATTR_COMP_MODE"
        THEN \* DEVATTR_COMP_MODE: att_value was never assigned
             IF undefined = "crash" THEN crashed
             ELSE IF undefined = "error" THEN raised("invalid byte sequence")
             ELSE returned(catalog_at(aindex).attname, <<"garbage">>)
        ELSE returned(catalog_at(aindex).attname,
                      <<format_property(catalog_at(aindex).attkind),
                        catalog_at(aindex).attrib, ordinal>>)

pgstrom_device_info(failure, undefined) ==
    LET init_cuda == cuda_num_devices < 0
        dindex == device_info.call_cntr \div (Len(catalog) + 2)
        aindex == device_info.call_cntr % (Len(catalog) + 2)
    IN
    /\ device_info.pc \in {"none", "next"}
    /\ failure \in {"cuInit", "cuDeviceGet"} => init_cuda
    /\ cuda_num_devices' =
           IF init_cuda /\ failure # "cuInit"
           THEN Len(cuda_device_ordinals) ELSE cuda_num_devices
    /\ device_info' =
           IF init_cuda /\ failure \in {"cuInit", "cuDeviceGet"}
           THEN [device_info EXCEPT !.pc = "raised", !.log = <<Error(failure)>>]
           ELSE IF dindex >= cuda_num_devices'
           THEN [device_info EXCEPT !.pc = "done"]
           ELSE device_info_row(dindex, aindex, failure, undefined)
    /\ UNCHANGED <<gcontext_lock, gcontext_hash, gcontext_last,
                   cuda_device_ordinals, gcontext, memcxt_deleted, resowner_parent,
                   pc, frame, held, trace, hist, taskVars, cudaVars, machine,
                   cuda_max_malloc_size, cuda_max_threads_per_block,
                   cuda_compute_capability, startup, workgroup,
                   plcudaVars>>

NextInfo ==
    \E failure \in InfoFailures, undefined \in Indeterminate :
        pgstrom_device_info(failure, undefined)

SpecInfo == InitInfo /\ [][NextInfo]_vars

(***************************************************************************)
(* plcuda_wait_child_program (src/unnamed/part_000, lines 884-950): one    *)
(* step for pqsignal at entry, one for CHECK_FOR_INTERRUPTS, one for       *)
(* waitpid and what follows a break, and WaitLatch with the seconds that   *)
(* pass in it.  The child ends and interrupts arrive on their own.         *)
(***************************************************************************)
\* the timeout of WaitLatch, 5000L milliseconds (line 925), in seconds
LatchTimeout == 5

SigchldHandler == "plcuda_sigchld_handler"

\* the ways a child ends: exit(0), exit(1), another exit code, a signal
ChildEnds == {"exit 0", "exit 1", "exit 2", "signaled"}

\* the errno of waitpid(2): none, EINTR, or another failure
WaitErrors == {"none", "EINTR", "ECHILD"}

\* a pqsignal that leaves the handler installed
pqsignal_keep(installed, saved) == installed

\* pqsignal(SIGCHLD, sigchld_saved) of lines 933 and 937
pqsignal_restore(installed, saved) == saved

\* WaitLatch is over by its timeout
latch_expired(waited, timeout) == waited >= timeout

\* PG_CATCH (lines 930-935): kill, pqsignal, PG_RE_THROW
wait_catch(w, msg) ==
    [w EXCEPT !.pc = "raised",
              !.killed = TRUE,
              !.sigchld = pqsignal_restore(@, w.sigchld_saved),
              !.log = <<Error(msg)>>]

\* lines 937-949, after the break of line 913
wait_result(w, status) ==
    LET restored == [w EXCEPT !.status = status,
                              !.reaped = TRUE,
                              !.sigchld = pqsignal_restore(@, w.sigchld_saved)]
    IN  IF status = "signaled"
        THEN [restored EXCEPT
                 !.pc = "raised",
                 !.log = <<Error("PL/CUDA script was terminated by signal")>>]
        ELSE IF status = "exit 0"
        THEN [restored EXCEPT !.pc = "returned", !.isnull = FALSE]
        ELSE IF status = "exit 1"
        THEN [restored EXCEPT !.pc = "returned", !.isnull = TRUE]
        ELSE [restored EXCEPT
                 !.pc = "raised",
                 !.log = <<Error("PL/CUDA script was terminated abnormally")>>]

\* line 896
plcuda_wait_child_program_enter ==
    /\ wait_child.pc = "none"
    /\ wait_child' = [wait_child EXCEPT !.pc = "loop",
                                        !.sigchld_saved = wait_child.sigchld,
                                        !.sigchld = SigchldHandler]
    /\ UNCHANGED <<registryVars, taskVars, cudaVars, deviceVars, expand_source>>

\* line 907
wait_check_for_interrupts ==
    /\ wait_child.pc = "loop"
    /\ wait_child' =
           IF wait_child.interrupt
           THEN wait_catch(wait_child, "canceling statement due to user request")
           ELSE [wait_child EXCEPT !.pc = "waitpid", !.checked = TRUE,
                                   !.unchecked = 0]
    /\ UNCHANGED <<registryVars, taskVars, cudaVars, deviceVars, expand_source>>

\* lines 908-920
wait_waitpid(errno) ==
    /\ wait_child.pc = "waitpid"
    /\ wait_child' =
           IF errno = "EINTR"
           THEN [wait_child EXCEPT !.pc = "loop", !.checked = FALSE]
           ELSE IF errno # "none"
           THEN wait_catch(wait_child, "failed on waitpid(2)")
           ELSE IF wait_child.child # "running"
           THEN wait_result(wait_child, wait_child.child)
           ELSE [wait_child EXCEPT !.pc = "latch", !.waited = 0]
    /\ UNCHANGED <<registryVars, taskVars, cudaVars, deviceVars, expand_source>>

\* a second passes in WaitLatch
wait_latch_sleeps ==
    /\ wait_child.pc = "latch"
    /\ ~wait_child.latch
    /\ ~latch_expired(wait_child.waited, LatchTimeout)
    /\ wait_child' = [wait_child EXCEPT !.waited = @ + 1, !.unchecked = @ + 1]
    /\ UNCHANGED <<registryVars, taskVars, cudaVars, deviceVars, expand_source>>

\* lines 921-927: WaitLatch returns for the latch, the timeout or the death
\* of the postmaster, whichever it was; ResetLatch
wait_latch_returns(postmaster_death) ==
    /\ wait_child.pc = "latch"
    /\ \/ wait_child.latch
       \/ latch_expired(wait_child.waited, LatchTimeout)
       \/ postmaster_death
    /\ wait_child' = [wait_child EXCEPT !.pc = "loop", !.latch = FALSE,
                                        !.checked = FALSE]
    /\ UNCHANGED <<registryVars, taskVars, cudaVars, deviceVars, expand_source>>

\* the child ends; SIGCHLD runs the installed handler (lines 887-891)
child_ends(how) ==
    /\ wait_child.child = "running"
    /\ ~wait_child.killed
    /\ wait_child' =
           [wait_child EXCEPT
               !.child = how,
               !.latch = IF wait_child.sigchld = SigchldHandler THEN TRUE ELSE @]
    /\ UNCHANGED <<registryVars, taskVars, cudaVars, deviceVars, expand_source>>

\* a cancel or shutdown request: the host's handler sets InterruptPending
\* and the latch
interrupt_arrives ==
    /\ wait_child.pc \notin {"returned", "raised"}
    /\ ~wait_child.interrupt
    /\ wait_child' = [wait_child EXCEPT !.interrupt = TRUE, !.latch = TRUE]
    /\ UNCHANGED <<registryVars, taskVars, cudaVars, deviceVars, expand_source>>

NextWait ==
    \/ plcuda_wait_child_program_enter
    \/ wait_check_for_interrupts
    \/ \E errno \in WaitErrors : wait_waitpid(errno)
    \/ wait_latch_sleeps
    \/ \E postmaster_death \in BOOLEAN : wait_latch_returns(postmaster_death)
    \/ \E how \in ChildEnds : child_ends(how)
    \/ interrupt_arrives

SpecWait == Init /\ [][NextWait]_vars

(***************************************************************************)
(* plcuda_expand_source (src/unnamed/part_000, lines 283-363) on the       *)
(* buffer of the source text, a sequence of characters that strtok_r and   *)
(* the trimming write NUL into; the character behind the buffer is the     *)
(* terminating NUL.  The call is that of the validator, where con->fcinfo  *)
(* is NULL (line 627).  plcuda_parse_cmd_options is lines 144-217.         *)
(***************************************************************************)
MaxLines == 3

NUL == ""

\* the lines the source texts are made of: the directives, an include with
\* an option, and two lines of code, one with a blank at its end
SourceLines ==
    {<<"#", "p", "l", "c", "u", "d", "a", "_", "d", "e", "c", "l">>,
     <<"#", "p", "l", "c", "u", "d", "a", "_", "b", "e", "g", "i", "n">>,
     <<"#", "p", "l", "c", "u", "d", "a", "_", "e", "n", "d">>,
     <<"#", "p", "l", "c", "u", "d", "a", "_", "i", "n", "c", "l", "u", "d", "e", " ", "F">>,
     <<"x", ";">>,
     <<"y", ";", " ">>}

\* the lines of a text joined by newlines, as the prosrc of pg_proc holds them
RECURSIVE JoinLines(_)
JoinLines(lines) ==
    IF Len(lines) = 1 THEN lines[1]
    ELSE lines[1] \o <<"\n">> \o JoinLines(Tail(lines))

Sources == UNION {[1..n -> SourceLines] : n \in 1..MaxLines}

CharAt(text, i) == IF i \in 1..Len(text) THEN text[i] ELSE NUL

isspace(ch) == ch \in {" ", "\t", "\n", "\r", "\f"}

\* tolower of the C locale
LowerOf ==
    ("A" :> "a" @@
     "B" :> "b" @@
     "C" :> "c" @@
     "D" :> "d" @@
     "E" :> "e" @@
     "F" :> "f" @@
     "G" :> "g" @@
     "H" :> "h" @@
     "I" :> "i" @@
     "J" :> "j" @@
     "K" :> "k" @@
     "L" :> "l" @@
     "M" :> "m" @@
     "N" :> "n" @@
     "O" :> "o" @@
     "P" :> "p" @@
     "Q" :> "q" @@
     "R" :> "r" @@
     "S" :> "s" @@
     "T" :> "t" @@
     "U" :> "u" @@
     "V" :> "v" @@
     "W" :> "w" @@
     "X" :> "x" @@
     "Y" :> "y" @@
     "Z" :> "z")

tolower(ch) == IF ch \in DOMAIN LowerOf THEN LowerOf[ch] ELSE ch

\* the first index from i on whose character is in stops or is NUL
ScanTo(text, i, stops) ==
    CHOOSE j \in i..(Len(text) + 1) :
        /\ CharAt(text, j) \in stops \cup {NUL}
        /\ \A k \in i..(j - 1) : CharAt(text, k) \notin stops \cup {NUL}

\* the first index from i on whose character is not in skipped
SkipOver(text, i, skipped) ==
    CHOOSE j \in i..(Len(text) + 1) :
        /\ CharAt(text, j) \notin skipped
        /\ \A k \in i..(j - 1) : CharAt(text, k) \in skipped

\* strtok_r(str, "\n\r", &pos): str is the buffer at its first call and
\* NULL later, when the scan starts at the saved pointer.  line = 0 is NULL.
strtok_r(text, from, delim) ==
    LET b == SkipOver(text, from, delim)
        e == ScanTo(text, b, delim)
    IN  IF CharAt(text, b) = NUL
        THEN [line |-> 0, pos |-> b, text |-> text]
        ELSE IF CharAt(text, e) = NUL
        THEN [line |-> b, pos |-> e, text |-> text]
        ELSE [line |-> b, pos |-> e + 1, text |-> [text EXCEPT ![e] = NUL]]

strlen(text, line) == ScanTo(text, line, {}) - line

\* the C string at line
StringAt(text, line) == SubSeq(text, line, line + strlen(text, line) - 1)

\* lines 300-303: the whitespace at the end of the line is overwritten
trim_tail(text, line) ==
    LET last == line + strlen(text, line) - 1
        end  == CHOOSE e \in (line - 1)..last :
                    /\ \A k \in (e + 1)..last : isspace(text[k])
                    /\ e >= line => ~isspace(text[e])
    IN  [i \in 1..Len(text) |-> IF i \in (end + 1)..last THEN NUL ELSE text[i]]

\* strncmp(line, "#plcuda_", 8) == 0
is_command(text, line) ==
    LET prefix == <<"#", "p", "l", "c", "u", "d", "a", "_">>
    IN  \A i \in 1..8 : CharAt(text, line + i - 1) = prefix[i]

\* plcuda_parse_cmd_options: the loop of lines 156-209 from the character
\* at i, and lines 210-216 behind it
RECURSIVE parse_cmd_options_from(_, _, _, _, _)
parse_cmd_options_from(linebuf, i, quote, token, options) ==
    LET ch    == linebuf[i]
        flush == IF token # <<>> THEN Append(options, token) ELSE options
    IN  IF i > Len(linebuf)
        THEN IF quote # NUL THEN [ok |-> FALSE, options |-> <<>>]
             ELSE [ok |-> TRUE, options |-> flush]
        ELSE IF ch = "\\"
        THEN IF i + 1 > Len(linebuf) THEN [ok |-> FALSE, options |-> <<>>]
             ELSE parse_cmd_options_from(linebuf, i + 2, quote,
                                         Append(token, linebuf[i + 1]), options)
        ELSE IF quote # NUL
        THEN IF ch = quote
             THEN parse_cmd_options_from(linebuf, i + 1, NUL, <<>>,
                                         Append(options, token))
             ELSE parse_cmd_options_from(linebuf, i + 1, quote,
                                         Append(token, ch), options)
        ELSE IF ch = "."
        THEN IF flush = <<>> THEN [ok |-> FALSE, options |-> <<>>]
             ELSE parse_cmd_options_from(linebuf, i + 1, quote, <<>>, flush)
        ELSE IF ch \in {"\"", "'"}
        THEN parse_cmd_options_from(linebuf, i + 1, ch, <<>>, flush)
        ELSE IF token # <<>>
        THEN IF isspace(ch)
             THEN parse_cmd_options_from(linebuf, i + 1, quote, <<>>,
                                         Append(options, token))
             ELSE parse_cmd_options_from(linebuf, i + 1, quote,
                                         Append(token, tolower(ch)), options)
        ELSE IF ~isspace(ch)
        THEN parse_cmd_options_from(linebuf, i + 1, quote,
                                    Append(token, tolower(ch)), options)
        ELSE parse_cmd_options_from(linebuf, i + 1, quote, token, options)

\* plcuda_parse_cmd_options(linebuf, &options), called with the whole line
\* at line 312
plcuda_parse_cmd_options(linebuf) ==
    parse_cmd_options_from(linebuf, 1, NUL, <<>>, <<>>)

\* what LookupFuncName, get_func_rettype and pg_proc_ownercheck may answer
LookupResults == {"found", "not found", "unexpected type", "permission denied"}

\* plcuda_lookup_helper (lines 79-141): the message it leaves, or none
plcuda_lookup_helper(options, lookup) ==
    LET named == \/ Len(options) = 1
                 \/ Len(options) = 3 /\ options[2] = <<".">>
    IN  IF ~named THEN <<"has invalid identifier">>
        ELSE IF lookup = "not found" THEN <<"function was not found">>
        ELSE IF lookup = "unexpected type"
        THEN <<"function has unexpected result type">>
        ELSE IF lookup = "permission denied"
        THEN <<"permission denied on helper function">>
        ELSE <<>>

\* EMSG (lines 71-75): the messages with the line number they are made at
EMSG(con, msgs) ==
    [con EXCEPT !.emsg = @ \o [i \in 1..Len(msgs) |-> <<con.lineno, msgs[i]>>]]

\* line 310 scans the command with pos, the variable that is also the save
\* pointer of strtok_r: the next strtok_r(NULL, ..., &pos) starts there
save_pointer(saved, cmd_end) == cmd_end

\* lines 317-361 for a command line
expand_command(con, cmd, options, lookup) ==
    IF cmd = <<"#", "p", "l", "c", "u", "d", "a", "_", "d", "e", "c", "l">>
    THEN IF con.decl.data THEN EMSG(con, <<"appeared twice">>)
         ELSE IF Len(options) > 0 THEN EMSG(con, <<"cannot takes options">>)
         ELSE [con EXCEPT !.decl = [data |-> TRUE, lines |-> <<>>],
                          !.curr = "decl"]
    ELSE IF cmd = <<"#", "p", "l", "c", "u", "d", "a", "_", "b", "e", "g", "i", "n">>
    THEN IF con.main.data THEN EMSG(con, <<"appeared twice">>)
         ELSE IF Len(options) > 0 THEN EMSG(con, <<"cannot takes options">>)
         ELSE [con EXCEPT !.main = [data |-> TRUE, lines |-> <<>>],
                          !.curr = "main"]
    ELSE IF cmd = <<"#", "p", "l", "c", "u", "d", "a", "_", "e", "n", "d">>
    THEN IF con.curr \notin {"decl", "main"}
         THEN EMSG(con, <<"is used out of code block">>)
         ELSE [con EXCEPT !.curr = "NULL"]
    ELSE IF cmd = <<"#", "p", "l", "c", "u", "d", "a", "_", "i", "n", "c", "l", "u", "d", "e">>
    THEN \* con->fcinfo is NULL: plcuda_code_include is not called
         [EMSG(con, plcuda_lookup_helper(options, lookup))
             EXCEPT !.include_count = @ + 1]
    ELSE EMSG(con, <<"unknown command">>)

\* the state plcuda_init_code_context leaves (lines 49-69), with the text
\* of the function and what the loop has been through
ExpandCall(input) ==
    [pc |-> "call", input |-> input, text |-> JoinLines(input),
     line |-> 0, pos |-> 0, lineno |-> 1, curr |-> "NULL",
     decl |-> [data |-> FALSE, lines |-> <<>>],
     main |-> [data |-> FALSE, lines |-> <<>>],
     emsg |-> <<>>, include_count |-> 0, visited |-> <<>>]

InitExpand ==
    /\ InitBackend
    /\ Started(DefaultMachine)
    /\ workgroup = NoWorkgroup
    /\ device_info = NoDeviceInfo
    /\ expand_source \in {ExpandCall(input) : input \in Sources}

\* the step of the for statement: the line strtok_r returned, or the end
expand_next(con, tok) ==
    [con EXCEPT !.text = tok.text, !.line = tok.line, !.pos = tok.pos,
                !.pc = IF tok.line = 0 THEN "returned" ELSE "line"]

\* line 291: line = strtok_r(source, "\n\r", &pos), con->lineno = 1
plcuda_expand_source_enter ==
    /\ expand_source.pc = "call"
    /\ expand_source' =
           expand_next([expand_source EXCEPT !.lineno = 1],
                       strtok_r(expand_source.text, 1, {"\n", "\r"}))
    /\ UNCHANGED <<registryVars, taskVars, cudaVars, deviceVars, wait_child>>

\* lines 295-362 for the line at hand, then line 293: strtok_r(NULL, "\n\r",
\* &pos), con->lineno++.  appendStringInfo(con->curr, ...) with con->curr
\* NULL is undefined: the process ends there or nothing is appended.
plcuda_expand_source_line(lookup, undefined) ==
    /\ expand_source.pc = "line"
    /\ LET con     == expand_source
           line    == con.line
           text    == trim_tail(con.text, line)
           str     == StringAt(text, line)
           seen    == [con EXCEPT !.text = text,
                                  !.visited = Append(@, str)]
           cmd_end == ScanTo(text, line, {" ", "\t", "\n", "\r", "\f"})
           cmd     == SubSeq(text, line, cmd_end - 1)
           parsed  == plcuda_parse_cmd_options(str)
           after(c, saved) ==
               expand_next([c EXCEPT !.lineno = @ + 1],
                           strtok_r(c.text, saved, {"\n", "\r"}))
       IN  expand_source' =
               IF ~is_command(text, line)
               THEN IF con.curr = "NULL"
                    THEN IF undefined = "crash"
                         THEN [seen EXCEPT !.pc = "crashed"]
                         ELSE after(seen, con.pos)
                    ELSE IF con.curr = "decl"
                    THEN after([seen EXCEPT !.decl.lines = Append(@, str)],
                               con.pos)
                    ELSE after([seen EXCEPT !.main.lines = Append(@, str)],
                               con.pos)
               ELSE IF ~parsed.ok
               THEN after(EMSG(seen, <<"pl/cuda command parse error">>),
                          save_pointer(con.pos, cmd_end))
               ELSE after(expand_command(seen, cmd, parsed.options, lookup),
                          save_pointer(con.pos, cmd_end))
    /\ UNCHANGED <<registryVars, taskVars, cudaVars, deviceVars, wait_child>>

NextExpand ==
    \/ plcuda_expand_source_enter
    \/ \E lookup \in LookupResults, undefined \in {"crash", "nothing"} :
          plcuda_expand_source_line(lookup, undefined)

SpecExpand == InitExpand /\ [][NextExpand]_vars

(***************************************************************************)
(* The steps the properties are about: thread t leaves the position at,    *)
(* which is the critical section of a call.                                *)
(***************************************************************************)
Leaves(t, at) == pc[t] = at /\ pc'[t] # at

\* C1: for every context that no cleanup callback has unlinked, counting the
\* acquires that returned it (N) and the puts made on it: the context is
\* registered exactly as long as fewer than N puts were made, the put that
\* sets do_release is the Nth and no earlier one, and the teardown runs once,
\* by the thread of that put.
C1_NthPutTearsDown ==
    \A c \in Allocated :
        ~hist[c].forced =>
            /\ hist[c].released <= hist[c].acquired
            /\ (c \in Registered) <=> (hist[c].released < hist[c].acquired)
            /\ hist[c].put_released <=> (hist[c].released = hist[c].acquired)
            /\ gcontext[c].refcnt = hist[c].acquired - hist[c].released
            /\ hist[c].teardowns =
                   (IF /\ hist[c].put_released
                       /\ \A t \in Threads :
                             ~(pc[t] = "release" /\ frame[t].gcontext = c)
                    THEN 1 ELSE 0)

\* two acquires and two puts of one context, torn down by the second put
C1_Witness ==
    \E c \in Allocated :
        /\ ~hist[c].forced
        /\ hist[c].acquired >= 2
        /\ hist[c].released = hist[c].acquired
        /\ hist[c].teardowns = 1
        /\ c \notin Registered

\* C2: when the cleanup callback, called in the phase it acts on for the
\* owner S, leaves its critical section, no context bound to S is registered,
\* and a context that was registered for S goes to the teardown in that call.
C2_HookRemovesScope ==
    [][\A t \in Threads :
          Leaves(t, "cleanup") =>
              /\ \A c \in Registered' :
                    gcontext'[c].resowner # frame[t].resowner
              /\ RegisteredFor(frame[t].resowner) # {} =>
                    /\ pc'[t] = "release"
                    /\ frame'[t].gcontext \in RegisteredFor(frame[t].resowner)]_vars

\* C4: when the cleanup callback is called with is_commit in the phase it
\* acts on while a context of the owner is registered, it logs a warning,
\* raises no error, and the context is not registered afterwards.
C4_CommitHookWarnsAndRemoves ==
    [][\A t \in Threads :
          (/\ Leaves(t, "cleanup")
           /\ frame[t].is_commit
           /\ RegisteredFor(frame[t].resowner) # {}) =>
              /\ Warned(trace'[t])
              /\ ~Raised(trace'[t])
              /\ \A c \in RegisteredFor(frame[t].resowner) : c \notin Registered']_vars

\* C5: a call of the cleanup callback for an owner whose context has been
\* removed changes nothing: the buckets, gcontext_last, every context, the
\* driver and the tasks are as before, nothing is logged and the call returns.
C5_SecondHookIsNoop ==
    [][\A t \in Threads :
          (/\ Leaves(t, "cleanup")
           /\ RegisteredFor(frame[t].resowner) = {}) =>
              /\ gcontext_hash' = gcontext_hash
              /\ gcontext_last' = gcontext_last
              /\ gcontext' = gcontext
              /\ memcxt_deleted' = memcxt_deleted
              /\ UNCHANGED <<taskVars, cudaVars>>
              /\ trace'[t] = <<>>
              /\ pc'[t] = "idle"]_vars

\* the callback has unlinked and torn down the context of an owner and is
\* in its critical section for that owner again
C5_Witness ==
    \E t \in Threads :
        /\ pc[t] = "cleanup"
        /\ RegisteredFor(frame[t].resowner) = {}
        /\ Registered # {}
        /\ \E c \in Allocated :
              /\ gcontext[c].resowner = frame[t].resowner
              /\ hist[c].forced
              /\ hist[c].teardowns = 1

\* C6: every registered context has refcnt >= 1, no context has a negative
\* refcnt, and a step that sets or changes a refcnt is made with
\* gcontext_lock held.
RefcntInRange ==
    /\ \A c \in Registered : gcontext[c].refcnt >= 1
    /\ \A c \in Allocated : gcontext[c].refcnt >= 0

C6_RefcntUnderLock ==
    [][/\ RefcntInRange
       /\ RefcntInRange'
       /\ \A c \in DOMAIN gcontext' :
             (c \notin DOMAIN gcontext \/ gcontext'[c].refcnt # gcontext[c].refcnt)
                 => gcontext_lock]_vars

\* a registered context whose count went up and down again
C6_Witness ==
    \E c \in Registered :
        /\ hist[c].acquired = 2
        /\ hist[c].released = 1
        /\ gcontext[c].refcnt = 1

\* C7: when pgstrom_get_gpucontext is called for an owner that has a
\* registered context, it returns that context with refcnt one higher and
\* allocates no context.
C7_HitReturnsRegistered ==
    [][\A t \in Threads :
          (/\ Leaves(t, "get")
           /\ RegisteredFor(frame[t].resowner) # {}) =>
              /\ Len(gcontext') = Len(gcontext)
              /\ \E c \in RegisteredFor(frame[t].resowner) :
                    /\ gcontext'[c].refcnt = gcontext[c].refcnt + 1
                    /\ held'[c] = held[c] + 1]_vars

\* C8: when pgstrom_get_gpucontext is called for an owner that has no
\* registered context and raises no error, it allocates exactly one context,
\* bound to the owner, with refcnt 1, at the tail of the bucket of the owner's
\* hash index, and leaves the other buckets alone.
C8_MissCreatesOne ==
    [][\A t \in Threads :
          (/\ Leaves(t, "get")
           /\ RegisteredFor(frame[t].resowner) = {}
           /\ ~Raised(trace'[t])) =>
              LET owner == frame[t].resowner
                  c == Len(gcontext) + 1
                  h == gpucontext_hash_index(owner)
              IN  /\ Len(gcontext') = c
                  /\ \A d \in Allocated : gcontext'[d] = gcontext[d]
                  /\ gcontext'[c].resowner = owner
                  /\ gcontext'[c].refcnt = 1
                  /\ gcontext_hash'[h] = Append(gcontext_hash[h], c)
                  /\ \A x \in DOMAIN gcontext_hash :
                        x # h => gcontext_hash'[x] = gcontext_hash[x]
                  /\ held'[c] = 1]_vars

\* a context just created: acquired once, in the bucket of its owner, while
\* another context is registered
C8_Witness ==
    \E c \in Registered :
        /\ hist[c].acquired = 1
        /\ hist[c].released = 0
        /\ gcontext[c].refcnt = 1
        /\ held[c] = 1
        /\ InSeq(c, gcontext_hash[gpucontext_hash_index(gcontext[c].resowner)])
        /\ Registered # {c}
        /\ \A t \in Threads : pc[t] = "idle"

\* C9: when pgstrom_get_gpucontext has created a context, gcontext_last
\* refers to it.
C9_MissSetsLast ==
    [][\A t \in Threads :
          (Leaves(t, "get") /\ Len(gcontext') > Len(gcontext)) =>
              gcontext_last' = Len(gcontext')]_vars

\* C10: when pgstrom_get_gpucontext has created a context, the context has
\* at least one device context, and as many as num_context says.
C10_NewContextHasDeviceContexts ==
    [][\A t \in Threads :
          (Leaves(t, "get") /\ Len(gcontext') > Len(gcontext)) =>
              LET c == Len(gcontext')
              IN  /\ gcontext'[c].num_context >= 1
                  /\ Len(gcontext'[c].dev_context) = gcontext'[c].num_context]_vars

(***************************************************************************)
(* What a finished teardown did, read from its trace: the positions of the *)
(* calls of a driver function, of the cuCtxSynchronize that succeeded on a *)
(* device context, of the cuCtxDestroy that succeeded.                     *)
(***************************************************************************)
CallsAt(tr, name) == {i \in 1..Len(tr) : tr[i][1] = name}

SyncedAt(tr, ctx) ==
    {i \in CallsAt(tr, "cuCtxSynchronize") : tr[i][2] = ctx /\ tr[i][3]}

DestroyedAt(tr) == {i \in CallsAt(tr, "cuCtxDestroy") : tr[i][3]}

DeviceContexts(c) == {gcontext[c].dev_context[j] : j \in 1..gcontext[c].num_context}

C11_CreationOutsideLock ==
    [][(Len(gcontext') > Len(gcontext) \/ cuda_num_devices' # cuda_num_devices)
          => ~gcontext_lock]_vars

\* C12: the critical section of pgstrom_put_gpucontext on a live context is
\* run with gcontext_lock held and ends with the lock released.  When it
\* takes the last reference, the context is in no bucket and not in
\* gcontext_last any more, the other contexts are chained as before, and the
\* teardown has not begun: the thread is about to call
\* pgstrom_release_gpucontext(gcontext, true).  Otherwise only refcnt of the
\* context has changed and the call returns.
C12_PutUnlinksUnderLock ==
    [][\A t \in Threads :
          (Leaves(t, "put") /\ frame[t].gcontext \notin memcxt_deleted) =>
              LET c == frame[t].gcontext
              IN  /\ gcontext_lock /\ ~gcontext_lock'
                  /\ gcontext' = [gcontext EXCEPT ![c].refcnt = @ - 1]
                  /\ memcxt_deleted' = memcxt_deleted
                  /\ hist'[c].teardowns = hist[c].teardowns
                  /\ trace' = trace
                  /\ UNCHANGED <<taskVars, cudaVars>>
                  /\ IF gcontext[c].refcnt = 1
                     THEN /\ c \notin Registered'
                          /\ Registered' = Registered \ {c}
                          /\ gcontext_last' # c
                          /\ gcontext_last # c => gcontext_last' = gcontext_last
                          /\ pc'[t] = "release"
                          /\ frame'[t].gcontext = c /\ frame'[t].is_commit
                     ELSE /\ gcontext_hash' = gcontext_hash
                          /\ gcontext_last' = gcontext_last
                          /\ pc'[t] = "idle"]_vars

\* the last put of a context acquired twice has unlinked it while another
\* context stays registered, and the teardown is still to come
C12_Witness ==
    \E t \in Threads :
        /\ pc[t] = "release"
        /\ frame[t].is_commit /\ frame[t].resowner = NULL
        /\ ~gcontext_lock
        /\ LET c == frame[t].gcontext
           IN  /\ hist[c].acquired = 2 /\ hist[c].released = 2
               /\ ~hist[c].forced
               /\ hist[c].teardowns = 0
               /\ c \notin Registered
               /\ c \notin memcxt_deleted
        /\ Registered # {}

(***************************************************************************)
(* The parts of the trace of a teardown: the calls that drain the device   *)
(* contexts, those that release task states, tasks and data stores, those  *)
(* that destroy the device contexts, the deletion of the memory context.   *)
(***************************************************************************)
DrainAt(tr) ==
    {i \in CallsAt(tr, "cuCtxSetCurrent") : tr[i][2] # NULL}
        \cup CallsAt(tr, "cuCtxSynchronize")

StateAt(tr) ==
    CallsAt(tr, "cuModuleUnload") \cup CallsAt(tr, "cb_release")
        \cup CallsAt(tr, "cb_cleanup")

StoreAt(tr) ==
    CallsAt(tr, "dlist_delete") \cup CallsAt(tr, "pgstrom_file_unmap_data_store")

ArenaAt(tr) == CallsAt(tr, "MemoryContextDelete")

Before(A, B) == \A i \in A, j \in B : i < j

\* the step in which thread t runs pgstrom_release_gpucontext to its end
Teardown(t) == Leaves(t, "release") /\ pc'[t] = "released"

\* C13: a teardown synchronizes every device context, then releases the task
\* states with their tasks and the data stores, then destroys every device
\* context, and deletes the memory context of the GpuContext as its very
\* last call: after every task of every task state of state_list was
\* released, every cb_cleanup called, every data store of pds_list unlinked
\* and every device context passed to cuCtxDestroy.
C13_TeardownOrder ==
    [][\A t \in Threads :
          Teardown(t) =>
              LET tr == trace'[t]
                  c  == frame[t].gcontext
              IN  /\ Cardinality(CallsAt(tr, "cuCtxSynchronize"))
                         = gcontext[c].num_context
                  /\ Before(DrainAt(tr), StateAt(tr) \cup StoreAt(tr))
                  /\ Before(DrainAt(tr), CallsAt(tr, "cuCtxDestroy"))
                  /\ Before(StateAt(tr) \cup StoreAt(tr),
                            CallsAt(tr, "cuCtxDestroy"))
                  /\ ArenaAt(tr) = {Len(tr)}
                  /\ tr[Len(tr)] = <<"MemoryContextDelete", c>>
                  /\ \A ctx \in DeviceContexts(c) :
                        \E i \in CallsAt(tr, "cuCtxDestroy") : tr[i][2] = ctx
                  /\ \A j \in 1..Len(gcontext[c].state_list) :
                        LET g == gcontext[c].state_list[j]
                        IN  /\ \A n \in 1..Len(gts[g].tracked_tasks) :
                                  \E i \in CallsAt(tr, "cb_release") :
                                      tr[i][2] = gts[g].tracked_tasks[n]
                            /\ gts[g].cb_cleanup =>
                                  \E i \in CallsAt(tr, "cb_cleanup") : tr[i][2] = g
                  /\ \A j \in 1..Len(gcontext[c].pds_list) :
                        \E i \in CallsAt(tr, "dlist_delete") :
                            tr[i][3] = gcontext[c].pds_list[j]
                  /\ c \in memcxt_deleted']_vars

\* a finished teardown of a GpuContext with two device contexts, a task
\* state with a module, a cleanup callback and a task, and a data store
\* mapped from a file
C13_Witness ==
    \E t \in Threads :
        /\ pc[t] = "released"
        /\ gcontext[frame[t].gcontext].num_context = 2
        /\ Cardinality(DestroyedAt(trace[t])) = 2
        /\ CallsAt(trace[t], "cuModuleUnload") # {}
        /\ CallsAt(trace[t], "cb_release") # {}
        /\ CallsAt(trace[t], "cb_cleanup") # {}
        /\ CallsAt(trace[t], "pgstrom_file_unmap_data_store") # {}
        /\ ArenaAt(trace[t]) # {}

\* the driver calls of a trace that failed
FailedAt(tr, name) == {i \in CallsAt(tr, name) : ~tr[i][3]}

\* the failed call at i is followed by its warning and by nothing worse
WarnedAt(tr, i, msg) == i < Len(tr) /\ tr[i + 1] = Warning(msg)

\* C14: a teardown of a live GpuContext runs to its end whatever driver call
\* fails.  Every cuCtxSetCurrent, cuCtxSynchronize, cuModuleUnload and
\* cuCtxDestroy that fails is followed by its warning, no error is raised,
\* and still every device context is made current, synchronized on and
\* passed to cuCtxDestroy, every task state of state_list is unlinked with
\* its module dropped, its tasks released and its cleanup called, every data
\* store of pds_list is unlinked and unmapped, and the memory context is
\* deleted at the end.
C14_TeardownTotal ==
    [][\A t \in Threads :
          (Leaves(t, "release") /\ frame[t].gcontext \notin memcxt_deleted) =>
              LET tr == trace'[t]
                  c  == frame[t].gcontext
              IN  /\ pc'[t] = "released"
                  /\ ~Raised(tr)
                  /\ \A i \in FailedAt(tr, "cuCtxSetCurrent") :
                        WarnedAt(tr, i, "failed on cuCtxSetCurrent")
                  /\ \A i \in FailedAt(tr, "cuCtxSynchronize") :
                        WarnedAt(tr, i, "failed on cuCtxSynchronize")
                  /\ \A i \in FailedAt(tr, "cuModuleUnload") :
                        WarnedAt(tr, i, "failed on cuModuleUnload")
                  /\ \A i \in FailedAt(tr, "cuCtxDestroy") :
                        WarnedAt(tr, i, "failed on cuCtxDestroy")
                  /\ \A ctx \in DeviceContexts(c) :
                        /\ \E i \in CallsAt(tr, "cuCtxSetCurrent") : tr[i][2] = ctx
                        /\ \E i \in CallsAt(tr, "cuCtxDestroy") : tr[i][2] = ctx
                  /\ Cardinality(CallsAt(tr, "cuCtxSynchronize"))
                         = gcontext[c].num_context
                  /\ \A j \in 1..Len(gcontext[c].state_list) :
                        LET g == gcontext[c].state_list[j]
                        IN  /\ gts[g].cuda_module =>
                                  \E i \in CallsAt(tr, "cuModuleUnload") : tr[i][2] = g
                            /\ ~gts'[g].cuda_module
                            /\ gts'[g].tracked_tasks = <<>>
                            /\ \A n \in 1..Len(gts[g].tracked_tasks) :
                                  LET k == gts[g].tracked_tasks[n]
                                  IN  task'[k].released = task[k].released + 1
                            /\ gts'[g].cleaned =
                                  gts[g].cleaned + (IF gts[g].cb_cleanup THEN 1 ELSE 0)
                  /\ \A j \in 1..Len(gcontext[c].pds_list) :
                        LET p == gcontext[c].pds_list[j]
                        IN  ~pds'[p].chained /\ ~pds'[p].mapped
                  /\ gcontext'[c].state_list = <<>>
                  /\ gcontext'[c].pds_list = <<>>
                  /\ tr[Len(tr)] = <<"MemoryContextDelete", c>>
                  /\ c \in memcxt_deleted']_vars

\* C15: a teardown of a live GpuContext calls the release callback of every
\* task tracked by a task state of its state_list exactly once, whether the
\* task was never launched, has work running or has completed, and every
\* such task is released when the teardown ends.
C15_TasksReleasedOnce ==
    [][\A t \in Threads :
          (Leaves(t, "release") /\ frame[t].gcontext \notin memcxt_deleted) =>
              LET tr == trace'[t]
                  c  == frame[t].gcontext
              IN  \A j \in 1..Len(gcontext[c].state_list) :
                      LET g == gcontext[c].state_list[j]
                      IN  \A n \in 1..Len(gts[g].tracked_tasks) :
                              LET k == gts[g].tracked_tasks[n]
                              IN  /\ Cardinality({i \in CallsAt(tr, "cb_release") :
                                                     tr[i][2] = k}) = 1
                                  /\ task'[k].released = 1]_vars

\* the leak warnings of a trace
LeakMessages ==
    {"Probably, someone forgot to put GpuContext",
     "Unreferenced GpuTaskState leak", "Unreferenced GpuTask leak"}

LeakAt(tr) == {i \in 1..Len(tr) : \E msg \in LeakMessages : tr[i] = Warning(msg)}

\* the call thread t is in was made by gpucontext_cleanup_callback
ByCleanupCallback(t) == frame[t].resowner # NULL

\* C16: a teardown logs a leak warning (context, task state or task never
\* released) only when it is the teardown of the cleanup callback at a
\* commit, and the teardown of the cleanup callback at an abort ends with
\* the task states and data stores of the context unlinked and its memory
\* context deleted, and no leak warning logged.
C16_LeakWarningsOnlyAtCommit ==
    \A t \in Threads :
        pc[t] \in {"released", "crashed"} =>
            /\ LeakAt(trace[t]) # {} => ByCleanupCallback(t) /\ frame[t].is_commit
            /\ (ByCleanupCallback(t) /\ ~frame[t].is_commit) =>
                  /\ pc[t] = "released"
                  /\ gcontext[frame[t].gcontext].state_list = <<>>
                  /\ gcontext[frame[t].gcontext].pds_list = <<>>
                  /\ frame[t].gcontext \in memcxt_deleted

\* the driver calls of a teardown
DriverCalls == {"cuCtxSetCurrent", "cuCtxSynchronize", "cuModuleUnload", "cuCtxDestroy"}

\* thread t starts the teardown of the last put of a GpuContext on which a
\* task state and tasks were initialized and whose tasks, all completed and
\* released by the caller, and task states are registered no more
CleanRun(t) ==
    LET c == frame[t].gcontext
    IN  /\ Leaves(t, "release")
        /\ ~ByCleanupCallback(t)
        /\ ~hist[c].forced
        /\ hist[c].released = hist[c].acquired
        /\ \E g \in DOMAIN gts : gts[g].gcontext = c
        /\ \E k \in DOMAIN task : gts[task[k].gts].gcontext = c
        /\ \A k \in DOMAIN task :
              gts[task[k].gts].gcontext = c =>
                  task[k].released = 1 /\ k \notin device_work
        /\ gcontext[c].state_list = <<>>

\* C17 as claimed: the teardown of such a run leaves no context registered
\* and nothing at all is logged as a warning, by it or by a call before it.
C17_CleanRunLogsNothing ==
    [][\A t \in Threads :
          /\ pc'[t] = "idle" => ~Warned(trace'[t])
          /\ CleanRun(t) =>
                /\ pc'[t] = "released"
                /\ Registered' = {}
                /\ ~Warned(trace'[t])]_vars

\* C17, amended: the teardown of such a run runs to its end, leaves no
\* context registered, deletes the memory context and logs no leak warning;
\* the only warnings it logs are those of its driver calls that failed, and
\* no call before it logs one.
C17_CleanRunLogsNoLeak ==
    [][\A t \in Threads :
          /\ pc'[t] = "idle" => ~Warned(trace'[t])
          /\ CleanRun(t) =>
                LET tr == trace'[t]
                IN  /\ pc'[t] = "released"
                    /\ Registered' = {}
                    /\ frame[t].gcontext \in memcxt_deleted'
                    /\ LeakAt(tr) = {}
                    /\ \A i \in 1..Len(tr) :
                          (tr[i][1] = "elog") =>
                              /\ i > 1
                              /\ tr[i - 1][1] \in DriverCalls
                              /\ ~tr[i - 1][3]
                              /\ tr[i][2] = "WARNING"]_vars

\* the end of such a run with two device contexts and two tasks, in which
\* nothing was logged
C17_Witness ==
    \E t \in Threads :
        /\ pc[t] = "released"
        /\ ~ByCleanupCallback(t)
        /\ trace[t] # <<>> /\ ~Warned(trace[t])
        /\ Registered = {}
        /\ LET c == frame[t].gcontext
           IN  /\ hist[c].teardowns = 1 /\ ~hist[c].forced
               /\ gcontext[c].num_context = 2
               /\ gcontext[c].state_list = <<>>
               /\ Len(gts) = 1 /\ Len(task) = 2
               /\ \A k \in DOMAIN task : task[k].released = 1

\* the errors pgstrom_init_gputask raises
TaskErrors ==
    {<<Error("failed on cuCtxGetDevice")>>, <<Error("failed on cuCtxPushCurrent")>>,
     <<Error("failed on cuStreamCreate")>>}

\* the step in which a call of pgstrom_init_gputask by thread t raises
InitTaskRaised(t) ==
    /\ pc[t] = "idle" /\ pc'[t] = "idle"
    /\ trace'[t] \in TaskErrors
    /\ trace'[t] # trace[t] \/ gcontext' # gcontext

\* C18 as claimed: a call of pgstrom_init_gputask in which a driver call
\* fails leaves the tasks, the task states with their tracked tasks and the
\* GpuContext as they were.
C18_FailedInitChangesNothing ==
    [][\A t \in Threads :
          InitTaskRaised(t) =>
              /\ task' = task
              /\ gts' = gts
              /\ gcontext' = gcontext]_vars

\* C18, amended: a call of pgstrom_init_gputask in which a driver call fails
\* raises an error and leaves the tasks, the task states with their tracked
\* tasks, the data stores and the registry as they were; of the GpuContext
\* only cur_context has changed, advanced by one.
C18_FailedInitAdvancesCursor ==
    [][\A t \in Threads :
          InitTaskRaised(t) =>
              /\ Raised(trace'[t])
              /\ task' = task
              /\ gts' = gts
              /\ pds' = pds
              /\ gcontext_hash' = gcontext_hash /\ gcontext_last' = gcontext_last
              /\ \E c \in Allocated :
                    gcontext' = [gcontext EXCEPT ![c].cur_context = @ + 1]]_vars

\* a second call of pgstrom_init_gputask on a GpuContext with two device
\* contexts has failed on cuStreamCreate: the first task is tracked alone
C18_Witness ==
    \E t \in Threads, c \in Allocated :
        /\ trace[t] = <<Error("failed on cuStreamCreate")>>
        /\ gcontext[c].num_context = 2
        /\ gcontext[c].cur_context = 2
        /\ Len(task) = 1
        /\ Len(gts) = 1 /\ gts[1].gcontext = c /\ gts[1].tracked_tasks = <<1>>

\* C19: every call of pgstrom_init_gputask on a GpuContext with n device
\* contexts computes an index in 0..n-1, the k-th call (k = 0, 1, 2, ...) the
\* index k mod n, and a call that succeeds binds the new task to the device
\* context at that index and appends it to the tail of tracked_tasks.
C19_RoundRobin ==
    [][/\ \A t \in Threads : ~(pc[t] = "idle" /\ pc'[t] = "crashed")
       /\ \A c \in Allocated :
             gcontext'[c].cur_context # gcontext[c].cur_context =>
                 LET n     == gcontext[c].num_context
                     kth   == gcontext[c].cur_context
                     index == kth % n
                     new   == Len(task')
                 IN  /\ n >= 1
                     /\ index \in 0..(n - 1)
                     /\ gcontext'[c].cur_context = kth + 1
                     /\ Len(task') > Len(task) =>
                           /\ Len(task') = Len(task) + 1
                           /\ task'[new].cuda_context = gcontext[c].dev_context[index + 1]
                           /\ gts'[task'[new].gts].tracked_tasks =
                                 Append(gts[task'[new].gts].tracked_tasks, new)]_vars

\* C20: at the return of pgstrom_init_gputaststate the new task state is at
\* the tail of the state_list of the GpuContext given and on no other, its
\* tracked, running, pending and completed collections are empty and its
\* three counters zero, the task states registered before are as they were,
\* and pgstrom_load_cuda_program has been called in the call exactly when a
\* kernel source was given.
C20_TaskStateInitialized ==
    [][Len(gts') > Len(gts) =>
          LET g == Len(gts')
              c == gts'[g].gcontext
          IN  /\ Len(gts') = Len(gts) + 1
              /\ c \in Allocated
              /\ gcontext'[c].state_list = Append(gcontext[c].state_list, g)
              /\ {d \in DOMAIN gcontext' : InSeq(g, gcontext'[d].state_list)} = {c}
              /\ \A d \in Allocated \ {c} : gcontext'[d] = gcontext[d]
              /\ \A h \in DOMAIN gts : gts'[h] = gts[h]
              /\ gts'[g].tracked_tasks = <<>>
              /\ gts'[g].running_tasks = <<>>
              /\ gts'[g].pending_tasks = <<>>
              /\ gts'[g].completed_tasks = <<>>
              /\ gts'[g].num_running_tasks = 0
              /\ gts'[g].num_pending_tasks = 0
              /\ gts'[g].num_completed_tasks = 0
              /\ \E t \in Threads :
                    /\ pc'[t] = "idle"
                    /\ trace'[t] = IF gts'[g].kern_source
                                   THEN <<<<"pgstrom_load_cuda_program", g>>>>
                                   ELSE <<>>
                    /\ \A u \in Threads \ {t} : trace'[u] = trace[u]]_vars

\* a task state with a kernel source has been registered on the second of
\* two registered GpuContexts
C20_Witness ==
    \E t \in Threads :
        /\ trace[t] = <<<<"pgstrom_load_cuda_program", 1>>>>
        /\ Len(gts) = 1 /\ gts[1].kern_source
        /\ gts[1].gcontext = 2
        /\ gcontext[2].state_list = <<1>>
        /\ gcontext[1].state_list = <<>>
        /\ Registered = {1, 2}

\* the GpuContexts that have the task state g on their state_list, and the
\* task states that have the task k among their tracked tasks
ListedBy(g) == {c \in Allocated : InSeq(g, gcontext[c].state_list)}

TrackedBy(k) == {g \in DOMAIN gts : InSeq(k, gts[g].tracked_tasks)}

Occurrences(x, seq) == Cardinality({i \in 1..Len(seq) : seq[i] = x})

\* thread t runs the teardown of GpuContext c in this step
TearsDown(t, c) == Leaves(t, "release") /\ frame[t].gcontext = c

OtherPhaseCalls ==
    {<<<<"gpucontext_cleanup_callback", phase, is_commit, owner>>>> :
        phase \in Phases \ {cleanup_phase}, is_commit \in BOOLEAN, owner \in Scopes}

\* C22: a call of gpucontext_cleanup_callback at another phase than
\* RESOURCE_RELEASE_AFTER_LOCKS returns at once: the buckets, gcontext_last,
\* the lock, every GpuContext with its references, task states and data
\* stores and the driver's contexts are as before and nothing is logged,
\* with is_commit true or false.
C22_OtherPhaseChangesNothing ==
    [][\A t \in Threads :
          (trace'[t] \in OtherPhaseCalls /\ trace'[t] # trace[t]) =>
              /\ pc'[t] = "idle"
              /\ UNCHANGED <<gcontext_lock, gcontext_hash, gcontext_last,
                             cuda_num_devices, cuda_device_ordinals, gcontext,
                             memcxt_deleted, resowner_parent, pc, frame, held,
                             hist, taskVars, cudaVars>>
              /\ ~Warned(trace'[t]) /\ ~Raised(trace'[t])
              /\ \A u \in Threads \ {t} : trace'[u] = trace[u]]_vars

\* the callback has returned from a call at RESOURCE_RELEASE_BEFORE_LOCKS
\* with is_commit set, for an owner whose GpuContext is registered in the
\* bucket the callback scans and referenced
C22_Witness ==
    \E t \in Threads, s \in Scopes :
        /\ pc[t] = "idle"
        /\ trace[t] = <<<<"gpucontext_cleanup_callback",
                          "RESOURCE_RELEASE_BEFORE_LOCKS", TRUE, s>>>>
        /\ \E c \in RegisteredFor(s) :
              /\ held[c] > 0
              /\ InSeq(c, gcontext_hash[gpucontext_hash_index(s)])

(***************************************************************************)
(* Workgroup sizing.                                                       *)
(***************************************************************************)
\* the call has ended in an error of the driver
DriverFailed ==
    /\ workgroup.pc = "raised"
    /\ \E failure \in WorkgroupFailures \ {"none"} : workgroup.log = <<Error(failure)>>

\* the call has ended in the error of line 437
TooSmall ==
    /\ workgroup.pc = "raised"
    /\ workgroup.log = <<Error("Expected block size is too small")>>

\* the call has ended in maximum-block-size mode
MaxBlockEnded == workgroup.maximum_blocksize /\ workgroup.pc \in {"returned", "raised"}

\* C23: whatever the static shared memory, the dynamic shared memory per
\* thread, the kernel's maximum threads and the device's maximum shared memory,
\* a call in maximum-block-size mode that ends has either returned a block size
\* of at least the warp size of the device or raised the error of the block
\* size being too small (or the error of a failed driver query); it has never
\* returned a block size below the warp size
C23_BlockAtLeastWarp ==
    MaxBlockEnded =>
        \/ /\ workgroup.pc = "returned"
           /\ workgroup.p_block_size >= workgroup.device.warp_size
        \/ TooSmall
        \/ DriverFailed

\* a call whose loop shrank the block below the warp size, ended by the error
C23_Witness ==
    /\ workgroup.maximum_blocksize
    /\ TooSmall
    /\ workgroup.block_size < workgroup.function.max_threads_per_block
    /\ workgroup.block_size < workgroup.device.warp_size
    /\ workgroup.p_block_size = 0

\* block size b fits the device: the shared memory of a block of b threads
Fits(b) ==
    workgroup.function.shared_size_bytes + (workgroup.dynamic_shmem_per_thread * b)
        <= workgroup.device.max_shared_memory_per_block

\* the least number of blocks of b threads that cover n items
CeilDiv(n, b) == CHOOSE g \in 0..n : g * b >= n /\ \A h \in 0..(g - 1) : h * b < n

\* C24: in maximum-block-size mode, when no error is raised, the returned block
\* size is the largest b not above the kernel's maximum threads per block with
\* static shared + dynamic shared per thread * b <= device maximum shared
\* memory per block, and the returned grid size is ceil(item count / b)
C24_LargestFittingBlock ==
    (workgroup.maximum_blocksize /\ workgroup.pc = "returned") =>
        /\ workgroup.p_block_size \in 1..workgroup.function.max_threads_per_block
        /\ Fits(workgroup.p_block_size)
        /\ \A b \in 1..workgroup.function.max_threads_per_block :
               Fits(b) => b <= workgroup.p_block_size
        /\ workgroup.p_grid_size = CeilDiv(workgroup.nitems, workgroup.p_block_size)

\* a call that shrank the block and returned a grid with a partial last block
C24_Witness ==
    /\ workgroup.maximum_blocksize
    /\ workgroup.pc = "returned"
    /\ workgroup.p_block_size < workgroup.function.max_threads_per_block
    /\ workgroup.p_block_size > 1
    /\ workgroup.p_grid_size > 1
    /\ workgroup.p_grid_size * workgroup.p_block_size > workgroup.nitems

\* C25: in maximum-occupancy mode the function returns the block size the
\* occupancy heuristic of the driver gave and a grid size equal to
\* ceil(item count / block size)
C25_OccupancyGridCoversItems ==
    (~workgroup.maximum_blocksize /\ workgroup.pc = "returned") =>
        /\ workgroup.p_block_size = workgroup.block_size
        /\ workgroup.p_grid_size = CeilDiv(workgroup.nitems, workgroup.p_block_size)

(***************************************************************************)
(* Device enumeration.                                                     *)
(***************************************************************************)
\* the positions in the machine of the devices that pass the capability
\* test: major compute capability of at least 3
Passed == {i \in DOMAIN machine : machine[i].dev_cap_major >= 3}

SetMin(S) == CHOOSE x \in S : \A y \in S : x <= y

\* a third of the memory, rounded down to a megabyte boundary
RoundedThird(dev_mem_sz) == (dev_mem_sz \div 3) - ((dev_mem_sz \div 3) % MB)

\* the enumeration has run over every device of the machine
Enumerated ==
    /\ startup.pc \in {"done", "failed"}
    /\ \A failure \in StartupFailures \ {"none"} : startup.log # <<Error(failure)>>

\* C26: after the enumeration of devices of mixed capability, the maximum
\* allocation size, the maximum threads per block and the minimum capability
\* version each equal the minimum over the devices that passed the capability
\* test, not over all the devices
C26_LimitsOverPassedDevices ==
    (startup.pc = "done") =>
        /\ cuda_max_malloc_size =
               SetMin({RoundedThird(machine[i].dev_mem_sz) : i \in Passed})
        /\ cuda_max_threads_per_block =
               SetMin({machine[i].dev_max_threads_per_block : i \in Passed})
        /\ cuda_compute_capability =
               SetMin({(100 * machine[i].dev_cap_major) + machine[i].dev_cap_minor :
                          i \in Passed})

\* C27: the list of eligible ordinals holds exactly the ordinals of the devices
\* of major capability 3 or more, each once, in increasing order; a device
\* below that is left out without an error
C27_OrdinalsOfPassedDevices ==
    Enumerated =>
        /\ {cuda_device_ordinals[k] : k \in DOMAIN cuda_device_ordinals}
               = {i - 1 : i \in Passed}
        /\ \A k \in 1..(Len(cuda_device_ordinals) - 1) :
               cuda_device_ordinals[k] < cuda_device_ordinals[k + 1]
        /\ Passed # {} => startup.pc = "done" /\ ~Raised(startup.log)

\* a started machine where a device in the middle was left out
C27_Witness ==
    /\ startup.pc = "done"
    /\ Len(machine) = 3
    /\ Passed = {1, 3}
    /\ cuda_device_ordinals = <<0, 2>>

\* C28: the allocation ceiling is the minimum over the accepted devices of a
\* third of the memory rounded down to a megabyte boundary: a multiple of a
\* megabyte, and never above a third of the memory of an accepted device
C28_CeilingOverAcceptedDevices ==
    (startup.pc = "done") =>
        /\ cuda_max_malloc_size =
               SetMin({RoundedThird(machine[i].dev_mem_sz) : i \in Passed})
        /\ cuda_max_malloc_size % MB = 0
        /\ \A i \in Passed : 3 * cuda_max_malloc_size <= machine[i].dev_mem_sz

\* C29: with every driver query succeeding, startup fails fatally exactly when
\* no device passes the capability test; when one passes it completes with
\* every bucket of the registry initialized and the cleanup callback
\* registered exactly once
C29_StartupFailsIffNoDevice ==
    Enumerated =>
        /\ startup.pc = "failed" <=> Passed = {}
        /\ startup.pc = "failed" =>
               startup.log[Len(startup.log)]
                   = Error("no CUDA device found on the system")
        /\ startup.pc = "done" =>
               /\ DOMAIN gcontext_hash = 0..(HashSize - 1)
               /\ \A h \in DOMAIN gcontext_hash : gcontext_hash[h] = <<>>
               /\ gcontext_lock = FALSE
               /\ startup.callbacks = <<CleanupCallback>>

\* a startup that completed on a machine with a device that does not pass
C29_Witness ==
    /\ startup.pc = "done"
    /\ Passed # {}
    /\ Passed # DOMAIN machine
    /\ DOMAIN gcontext_hash = 0..(HashSize - 1)
    /\ startup.callbacks = <<CleanupCallback>>

(***************************************************************************)
(* Device information.                                                     *)
(***************************************************************************)
\* the rows of one device: its name, its memory, then the catalog in order
RowsPerDevice == Len(catalog) + 2

\* C30: over its successive calls pgstrom_device_info returns, for each
\* eligible device in order, one row for the device name, one for the total
\* memory and one for every entry of the catalog, each attribute read from an
\* entry of the table, and reports completion after the last device
C30_RowsCoverCatalog ==
    /\ \A k \in DOMAIN device_info.rows :
           device_info.rows[k].aindex >= 2 =>
               \E e \in DOMAIN catalog :
                   device_info.rows[k].attribute = catalog[e].attname
    /\ device_info.pc = "done" =>
           /\ Len(device_info.rows) = RowsPerDevice * Len(cuda_device_ordinals)
           /\ \A d \in 0..(Len(cuda_device_ordinals) - 1) :
                  /\ device_info.rows[(d * RowsPerDevice) + 1].attribute
                         = "Device name"
                  /\ device_info.rows[(d * RowsPerDevice) + 2].attribute
                         = "Total global memory size"
                  /\ \A e \in DOMAIN catalog :
                         /\ device_info.rows[(d * RowsPerDevice) + 2 + e].id = d
                         /\ device_info.rows[(d * RowsPerDevice) + 2 + e].attribute
                                = catalog[e].attname

(***************************************************************************)
(* The wait for the child of a PL/CUDA function.                           *)
(***************************************************************************)
\* the call was left by the PG_CATCH block
CaughtWhileWaiting ==
    /\ wait_child.pc = "raised"
    /\ wait_child.log \in {<<Error("canceling statement due to user request")>>,
                           <<Error("failed on waitpid(2)")>>}

\* C31: the wait loop of plcuda_wait_child_program checks for interrupts in
\* every iteration and never waits more than 5 seconds between two checks; when
\* an interrupt or an error is raised while it waits, the child is killed and
\* the previous SIGCHLD handler is back before the error goes on, and the
\* handler is also back when the function returns
C31_WaitLoopChecksInterrupts ==
    /\ wait_child.unchecked <= 5
    /\ wait_child.pc \in {"waitpid", "latch"} => wait_child.checked
    /\ CaughtWhileWaiting =>
           wait_child.killed /\ wait_child.sigchld = PreviousHandler
    /\ wait_child.pc \in {"returned", "raised"} =>
           wait_child.sigchld = PreviousHandler
    /\ wait_child.pc \in {"loop", "waitpid", "latch"} =>
           wait_child.sigchld = SigchldHandler

\* an interrupt that ended a wait which had once slept its whole timeout
C31_Witness ==
    /\ CaughtWhileWaiting
    /\ wait_child.log = <<Error("canceling statement due to user request")>>
    /\ wait_child.waited = LatchTimeout
    /\ wait_child.killed
    /\ wait_child.sigchld = PreviousHandler

(***************************************************************************)
(* The registry, once more: teardowns, the lock, the buckets.              *)
(***************************************************************************)
\* a thread is in pgstrom_put_gpucontext or pgstrom_release_gpucontext with
\* a GpuContext whose memory context has been deleted
TouchedAfterTeardown(t) ==
    /\ pc[t] \in {"put", "release", "crashed"}
    /\ frame[t].gcontext # NULL
    /\ frame[t].gcontext \in memcxt_deleted

\* C32: in every sequence of acquire, release and cleanup-hook calls a
\* context is torn down at most once and is not touched after its teardown,
\* also when the hook has torn down a context whose reference count was above
\* zero and a holder puts it afterwards
C32_TornDownOnceNeverTouchedAfter ==
    /\ \A c \in DOMAIN hist : hist[c].teardowns <= 1
    /\ \A t \in Threads : ~TouchedAfterTeardown(t)

\* the steps between SpinLockAcquire and the end of the critical section
InCriticalSection == {"get", "put", "cleanup"}

\* C33: gcontext_lock is not held when pgstrom_get_gpucontext,
\* pgstrom_put_gpucontext or gpucontext_cleanup_callback leaves its critical
\* section, by a return, by going on to the teardown or by an error; when the
\* creation of a context fails in an acquire that missed, the lock is free
\* and the buckets and the registered contexts are as before
C33_LockFreeOnReturnAndError ==
    [][\A t \in Threads :
          (pc[t] \in InCriticalSection /\ pc'[t] \notin InCriticalSection) =>
              /\ ~gcontext_lock'
              /\ Raised(trace'[t]) =>
                     /\ gcontext_hash' = gcontext_hash
                     /\ gcontext_last' = gcontext_last
                     /\ gcontext' = gcontext]_vars

\* C34: the registry holds at most one context for a scope, and every
\* registered context is chained once, in the bucket that the hash of its own
\* scope selects
C34_OnePerScopeInOwnBucket ==
    /\ \A s \in Scopes : Cardinality(RegisteredFor(s)) <= 1
    /\ \A h \in DOMAIN gcontext_hash :
          \A i \in 1..Len(gcontext_hash[h]) :
              /\ h = gpucontext_hash_index(gcontext[gcontext_hash[h][i]].resowner)
              /\ \A k \in DOMAIN gcontext_hash :
                    \A j \in 1..Len(gcontext_hash[k]) :
                        gcontext_hash[k][j] = gcontext_hash[h][i] =>
                            (k = h /\ j = i)

(***************************************************************************)
(* The cleanup callback and the contexts of other owners.                  *)
(***************************************************************************)
\* thread t is in gpucontext_cleanup_callback: in its critical section, or
\* in the teardown of the context it has unlinked
InCleanupCallback(t) ==
    /\ pc[t] \in {"cleanup", "release"}
    /\ frame[t].resowner # NULL

\* the buckets a context is chained in
ChainedIn(hash, c) == {h \in DOMAIN hash : InSeq(c, hash[h])}

\* the contexts another owner than s is bound to
BoundToOther(s) == {c \in Allocated : gcontext[c].resowner # s}

\* C35: a call of the cleanup callback for owner S leaves every context bound
\* to another owner as it was: registered or not as before, same reference
\* count, same task states and data stores, also a context that is chained in
\* the bucket of S
C35_HookLeavesOtherScopes ==
    [][\A t \in Threads :
          (InCleanupCallback(t) /\ pc'[t] # pc[t]) =>
              \A c \in BoundToOther(frame[t].resowner) :
                  /\ gcontext'[c] = gcontext[c]
                  /\ ChainedIn(gcontext_hash', c) = ChainedIn(gcontext_hash, c)
                  /\ \A g \in DOMAIN gts : gts[g].gcontext = c => gts'[g] = gts[g]
                  /\ \A p \in DOMAIN pds : pds[p].gcontext = c => pds'[p] = pds[p]
                  /\ (c \in memcxt_deleted') = (c \in memcxt_deleted)]_vars

\* the callback has unlinked the context of its owner from a bucket in which
\* the context of another owner, with a task state, is chained too
C35_Witness ==
    \E t \in Threads :
        /\ pc[t] = "release"
        /\ frame[t].resowner # NULL
        /\ \E c \in BoundToOther(frame[t].resowner) :
              /\ InSeq(c, gcontext_hash[frame[t].hindex])
              /\ gcontext[c].refcnt >= 1
              /\ gcontext[c].state_list # <<>>

(***************************************************************************)
(* The teardown of a task state and of the data stores.                    *)
(***************************************************************************)
\* the teardown of the GpuContext has been through the task state g: the
\* loop over tracked_tasks, the cleanup callback and the four assertions
TornDownState(g) ==
    /\ ~Crashed
    /\ hist[gts[g].gcontext].teardowns > 0
    /\ ~InSeq(g, gcontext[gts[g].gcontext].state_list)

\* C36: after the forced teardown of a task state (its tracked tasks
\* released, its cleanup callback run) the tracked, running, pending and
\* completed collections of the task state are empty, whatever the state of
\* its tasks' lifecycle was
C36_CollectionsEmptyAfterTeardown ==
    \A g \in DOMAIN gts :
        TornDownState(g) =>
            /\ gts[g].tracked_tasks = <<>>
            /\ gts[g].running_tasks = <<>>
            /\ gts[g].pending_tasks = <<>>
            /\ gts[g].completed_tasks = <<>>

\* the data stores made under a GpuContext
StoresOf(c) == {p \in DOMAIN pds : pds[p].gcontext = c}

\* C37: the teardown of a context takes every data store off the pds_list of
\* the context and unmaps every one that is mapped from a file: no file-mapped
\* data store of the context is left when pgstrom_release_gpucontext is over
C37_DataStoresUnmapped ==
    [][\A t \in Threads :
          Leaves(t, "release") =>
              /\ gcontext'[frame[t].gcontext].pds_list = <<>>
              /\ \A p \in StoresOf(frame[t].gcontext) :
                    ~pds'[p].chained /\ ~pds'[p].mapped]_vars

(***************************************************************************)
(* The end of the loop of pgstrom_compute_workgroup_size.                  *)
(***************************************************************************)
\* the call is over: it has returned or raised an error
WorkgroupEnded == workgroup.pc \in {"returned", "raised"}

\* C38: in maximum-block-size mode the loop that shrinks the block size ends
\* for every input, also when the static shared memory of the function is
\* above the maximum of the device and when the dynamic shared memory per
\* thread is zero
C38_ShrinkLoopTerminates == (workgroup.pc = "shrink") ~> WorkgroupEnded

(***************************************************************************)
(* The device of a task.                                                   *)
(***************************************************************************)
\* C39: after pgstrom_init_gputask has succeeded, the device recorded in the
\* task is the device of the device context assigned to the task, the one
\* its stream was created in, whatever calls of pgstrom_init_gputask were
\* made before on a GpuContext with several device contexts
C39_TaskDeviceOfItsContext ==
    \A k \in DOMAIN task :
        task[k].cuda_device = cuda_context[task[k].cuda_context].device

(***************************************************************************)
(* The lines plcuda_expand_source goes through.                            *)
(***************************************************************************)
\* a line without the whitespace at its end
RECURSIVE TrimLine(_)
TrimLine(l) ==
    IF l # <<>> /\ isspace(l[Len(l)]) THEN TrimLine(SubSeq(l, 1, Len(l) - 1))
    ELSE l

IsDirective(l) ==
    Len(l) >= 8 /\ SubSeq(l, 1, 8) = <<"#", "p", "l", "c", "u", "d", "a", "_">>

\* the block a line opens, "NULL" for '#plcuda_end', or the block open before
BlockAfter(l, open) ==
    IF l = <<"#", "p", "l", "c", "u", "d", "a", "_", "d", "e", "c", "l">> THEN "decl"
    ELSE IF l = <<"#", "p", "l", "c", "u", "d", "a", "_", "b", "e", "g", "i", "n">> THEN "main"
    ELSE IF l = <<"#", "p", "l", "c", "u", "d", "a", "_", "e", "n", "d">> THEN "NULL"
    ELSE open

\* '#plcuda_decl' and '#plcuda_begin' at most once each and outside a block,
\* '#plcuda_end' inside one
RECURSIVE WellFormedFrom(_, _, _, _)
WellFormedFrom(lines, i, open, opened) ==
    IF i > Len(lines) THEN TRUE
    ELSE LET l    == TrimLine(lines[i])
             next == BlockAfter(l, open)
         IN  /\ l \in {<<"#", "p", "l", "c", "u", "d", "a", "_", "d", "e", "c", "l">>, <<"#", "p", "l", "c", "u", "d", "a", "_", "b", "e", "g", "i", "n">>} => (open = "NULL" /\ next \notin opened)
             /\ l = <<"#", "p", "l", "c", "u", "d", "a", "_", "e", "n", "d">> => open # "NULL"
             /\ WellFormedFrom(lines, i + 1, next, opened \cup {next})

\* the lines of code between the opening of a block and its '#plcuda_end'
RECURSIVE BlockLines(_, _, _, _)
BlockLines(lines, i, open, block) ==
    IF i > Len(lines) THEN <<>>
    ELSE LET l == TrimLine(lines[i])
         IN  (IF ~IsDirective(l) /\ open = block THEN <<l>> ELSE <<>>)
                 \o BlockLines(lines, i + 1, BlockAfter(l, open), block)

\* C40: plcuda_expand_source goes through every line of the source text in
\* order: a '#plcuda_' command line neither ends the loop nor makes it skip a
\* line behind it, and every line of code between '#plcuda_decl' or
\* '#plcuda_begin' and its '#plcuda_end' is appended to that block
C40_EveryLineVisited ==
    expand_source.pc = "returned" =>
        LET input == expand_source.input
        IN  /\ expand_source.visited = [i \in 1..Len(input) |-> TrimLine(input[i])]
            /\ WellFormedFrom(input, 1, "NULL", {}) =>
                   /\ expand_source.decl.lines = BlockLines(input, 1, "NULL", "decl")
                   /\ expand_source.main.lines = BlockLines(input, 1, "NULL", "main")

====
